---------------------------- MODULE Spec2Model ----------------------------
(***************************************************************************)
(* A model of the JIT compiler and runtime glue of src/src/compile.cpp.   *)
(*                                                                         *)
(* The module holds several specifications over one list of variables,    *)
(* one per part of the program:                                            *)
(*                                                                         *)
(*   SpecCompile  compileMethod2 called by several threads                 *)
(*   SpecPatch    a direct call site, the method stub and updateCaller     *)
(*   SpecInvoke   the invoke bridge and the local reference chain          *)
(*   SpecMap      the bytecode-IP to machine-IP map of Compiler::compile   *)
(*   SpecHandler  findExceptionHandler on one frame                        *)
(*   SpecUnwind   unwind over the frame accessors                          *)
(*   SpecFrames   the stack words written by calls and read by frameNext   *)
(*   SpecStub       MyProcessor::methodStub and nativeInvoker              *)
(*   SpecFootprint  MyProcessor::parameterFootprint                        *)
(*   SpecInit       MyProcessor::initClass                                 *)
(*   SpecNative     invokeNative and invokeNative2                         *)
(*   SpecArguments  the constructors of ArgumentList                       *)
(*   SpecDiscard    compileMethod when a helper fails                      *)
(*   SpecArray      array loads and stores called through invoke           *)
(*   SpecBuffer     Buffer: ensure and the appends                         *)
(*   SpecPool       the pool register, pool references and jumps           *)
(*   SpecJumps      the branch instructions and resolveJumps               *)
(*   SpecNewArray   the templates of anewarray and newarray                *)
(*   SpecThrow      throw_ called by athrow                                *)
(*   SpecWide       the two words of a long or double                      *)
(*   SpecLineNumbers  the line-number table of Compiler::compile           *)
(*                                                                         *)
(* A specification leaves the variables of the other parts at their idle   *)
(* values.                                                                 *)
(***************************************************************************)
EXTENDS Integers, Sequences, FiniteSets, TLC

VARIABLES
  \* ---- compileMethod2 (SpecCompile)
  methodCompiled,   \* method.compiled: MethodStub or a Compiled record
  methodCode,       \* method.code: "bytecode" until the pool array replaces it
  classLock,        \* owner of t->m->classLock, 0 when free
  cmPc,             \* per thread: position inside compileMethod2
  cmLocalCode,      \* per thread: the local `code` of compileMethod2
  cmObserved,       \* per thread: method.compiled as read after the call returned
  cmCalls,          \* per thread: calls of compileMethod2 made so far
  codeRecords,      \* Compiled records produced by Compiler::compile so far
  \* ---- the build
  BytesPerWord,     \* 4 or 8, fixed when the VM is built
  \* ---- a direct call site and the method stub (SpecPatch)
  callKind,         \* the bytecode of the call site: "static" or "special"
  targetVirtual,    \* methodVirtual(t, target)
  targetCompiled,   \* target.compiled, the address of a Compiled record
  callerBase,       \* address of the caller's Compiled record
  callerCode,       \* the caller's code region, a sequence of bytes
  returnOffset,     \* offset in callerCode of the byte after the call
  patchPc,          \* where the thread running the caller is
  siteExecutions,   \* times the call site was executed
  stubEntries,      \* times the method stub was entered from the call site
  directEntries,     \* times the call site called the target's code directly
  \* ---- the invoke bridge (SpecInvoke)
  threadReference,  \* the chain of local references, t->reference first
  threadFrame,      \* t->frame
  invokeStack,      \* the activations of invoke() on the native stack
  lastInvoke,        \* what the called code did in the call that returned last
  \* ---- Compiler::compile and the IP map (SpecMap)
  mapMethod,        \* the method given to Compiler::compile
  javaIPs,          \* Buffer javaIPs: one 2-byte entry per instruction
  machineIPs,       \* Buffer machineIPs: one 4-byte entry per instruction
  mapCodeLength,    \* code.length() when the loop of compile is over
  jumpTarget,       \* the machine ip resolveJumps found for the branches
  builtHandlers,    \* Buffer exceptionHandlers, one record per entry
  mapOutcome,       \* "none", "compiled", or "aborted" by machineIpForJavaIp
  lookupArg,        \* the last bytecode ip looked up after the compile
  lookupResult,      \* and what machineIpForJavaIp returned for it
  \* ---- findExceptionHandler on one frame (SpecHandler)
  ehTable,          \* the handler table of the frame's method
  ehOffset,         \* addressOffset(t, method, frameAddress(frame))
  ehException,      \* the class of t->exception
  ehResult,          \* index of the handler returned, 0 for none
  \* ---- unwind over the frames in memory (SpecUnwind)
  uwNext,           \* per frame: the word frameNext and frameReturnAddress read
  uwMethod,         \* per frame: the method frameMethod reads
  uwOffset,         \* per frame: addressOffset of frameAddress in its method
  uwException,      \* the class of t->exception
  uwThreadFrame,    \* t->frame
  uwEntryFrame,     \* t->frame when unwind was entered
  uwFrame,          \* the local `frame` of unwind
  uwPc,             \* "idle", "loop", "jumped" or "aborted"
  uwJump,            \* the argument of vmJump
  \* ---- the machine stack of a thread (SpecFrames)
  stack,            \* the words of the stack, by word address
  stackPointer,     \* register rsp, a word address
  basePointer,      \* register rbp
  frThreadFrame,    \* t->frame
  activations,      \* the calls in progress, the innermost last
  entries,           \* the number of calls made so far
  \* ---- MyProcessor::methodStub and nativeInvoker (SpecStub)
  methodStub_,      \* MyProcessor::methodStub_, 0 until a stub is stored
  nativeInvoker_,   \* MyProcessor::nativeInvoker_, 0 until one is stored
  stPc,             \* per thread: position inside methodStub / nativeInvoker
  stRoutine,        \* per thread: which of the two routines it is in
  stLocal,          \* per thread: the Code the thread's Compiler finished
  stCalls,          \* per thread: calls made so far
  stEmitted,        \* per routine: Code blocks emitted so far
  stReturned,        \* per routine: the pointers returned to callers so far
  \* ---- MyProcessor::parameterFootprint (SpecFootprint)
  fpParams,         \* the parameter types the spec string was written from
  fpStatic,         \* the argument static_
  fpCalled,         \* whether parameterFootprint has been called
  fpResult,         \* the footprint it returned
  fpStop,            \* the index in the string where its loop stopped
  \* ---- MyProcessor::initClass (SpecInit)
  icFlags,          \* per class: classVmFlags, of NeedInitFlag and InitFlag
  icLock,           \* t->m->classLock: owner (0 when free) and depth
  icStack,          \* per thread: its activations of initClass, last on top
  icException,      \* per thread: t->exception, <<>> when none is pending
  icRuns,           \* per class: times invoke ran the class initializer
  icLast,            \* per thread: the call of initClass that returned last
  \* ---- invokeNative (SpecNative)
  nvCode,           \* per native method: methodCode, the name or a pointer
  nvException,      \* t->exception, "none" when none is pending
  nvPc,             \* position inside invokeNative / invokeNative2
  nvCall,           \* the call in progress or the one that ended last
  nvCalls,           \* calls of invokeNative made so far
  \* ---- ArgumentList (SpecArguments)
  argParams,        \* the parameter types of the method's spec
  argThis,          \* whether this_ is non-null
  argEntry,         \* the entry point: "invokeArray", "invokeList", "invokeListByName"
  argFit,           \* whether the addresses of t and t->frame are below 2^32
  argCalled,        \* whether the constructor has run
  argArray,         \* the slots filled: array[0 .. position - 1]
  argSize,           \* the length of the block the entry point allocated
  argStale,          \* what an element of objectMask holds before it is written
  argMask,           \* objectMask: for each position, written or not and the value
  \* ---- compileMethod when a helper fails (SpecDiscard)
  cxBody,           \* the instructions of the method that call helpers
  cxIp,             \* index of the instruction Compiler::compile is at
  cxHelper,         \* helpers of that instruction that have returned
  cxPool,           \* Buffer pool: the objects given to poolReference
  cxException,      \* t->exception, "none" when none is pending
  cxPc,             \* position inside compileMethod / compileMethod2
  cxLocal,          \* the local `code` of compileMethod2
  cxCompiled,       \* method.compiled
  cxCode,           \* method.code
  cxOutcome,         \* how compileMethod ended
  \* ---- array access in compiled code called through invoke (SpecArray)
  abLength,         \* the length word of the array
  abIndex,          \* the index popped into rcx
  abOp,             \* "load" or "store": the kind of the instruction
  abReturnCode,     \* methodReturnCode of the method invoke called
  abPc,             \* where the thread is
  abAccessed,       \* whether an element was read or written
  abThrowNew,       \* whether throwNew was called
  abException,      \* t->exception, "none" when none is pending
  abResult,         \* the word vmInvoke returned to invoke
  abReturned,        \* what invoke returned to its caller
  \* ---- Buffer (SpecBuffer)
  bufData,          \* the block `data` points at, <<>> when data is 0
  bufPosition,      \* Buffer::position
  bufCapacity,      \* Buffer::capacity
  bufMinimum,       \* Buffer::minimumCapacity
  bufOutside,       \* whether a byte was written outside the block
  bufExpected,      \* the bytes of the values appended so far, in order
  bufAppends,        \* appends made so far
  \* Pool: the pool register in the code emitted for a method
  prBody,           \* the method's instructions, one record per instruction
  prIp,             \* the compile loop's position: instructions compiled
  prCode,           \* the emitted code, one record per machine operation
  prPool,           \* Compiler::pool: the objects appended, in order
  prReturned,       \* the offsets poolReference returned, in order
  prClobbered,      \* Compiler::poolRegisterClobbered
  prMachineIPs,     \* code offset where each compiled instruction starts
  prJumps,          \* Assembler::jumps: target instruction and code offset
  prPc,             \* "compile", "run" or "done"
  prAt,             \* offset of the next operation the emitted code runs
  prRegister,        \* what rdi holds while the code runs: "pool" or "other"
  \* Jumps: the branches of a method and resolveJumps
  jmMethod,         \* the method compiled: filler instructions and a tail
  jmCode,           \* the code buffer when the loop of compile ends
  jmJumps,          \* Assembler::jumps: target ip and offset of each slot
  jmResolved,       \* the code buffer after resolveJumps
  jmOutcome,         \* "none", "compiled" or "aborted"
  \* NewArray: the code emitted for newarray and anewarray
  naOp,             \* "newarray" or "anewarray"
  naLength,         \* the value on top of the operand stack
  naAt,             \* index of the next operation of the template, from 1
  naRax,            \* register rax
  naFlags,          \* the flags the last cmp left: less, equal
  naArgument,       \* the value passed as the last argument of the call
  naThrown,         \* throwNew was called
  naAllocated,      \* the allocation helper was called
  naPushed,          \* the result was pushed
  \* Throw: athrow and throw_
  thArgument,       \* the reference athrow popped and passed to throw_
  thException,      \* t->exception
  thPc,             \* "code", "throw_" or "unwind"
  thCalls,           \* calls of throw_ so far
  \* Wide: the two words of a long or double in compiled code
  wdKind,           \* "field", "array", "static" or "return"
  wdFirst,          \* the word below the top of the operand stack at the start
  wdSecond,         \* the word on top of the operand stack at the start
  wdStack,          \* the operand stack, its top last
  wdRegisters,      \* the registers, by number
  wdMemory,         \* the two 4-byte words of the field or element: offsets 0, 4
  wdAt,              \* index of the next operation of the program, 0 when over
  \* LineNumbers: the line-number table built by Compiler::compile
  lnMethod,         \* the instructions of the method
  lnTable,          \* codeLineNumberTable: NoTable or its entries
  lnAt,             \* number of the next instruction, 0 after the loop
  lnIp,             \* ip
  lnCodeLength,     \* this->code.length()
  lnIndex,          \* lineNumberIndex
  lnEmitted,        \* lineNumbers, as {machine offset, line} entries
  lnOutside         \* the indices read where the table has no entry

compileVars == <<methodCompiled, methodCode, classLock, cmPc, cmLocalCode,
                 cmObserved, cmCalls, codeRecords>>

patchVars == <<callKind, targetVirtual, targetCompiled, callerBase, callerCode,
               returnOffset, patchPc, siteExecutions, stubEntries, directEntries>>

invokeVars == <<threadReference, threadFrame, invokeStack, lastInvoke>>

mapVars == <<mapMethod, javaIPs, machineIPs, mapCodeLength, jumpTarget,
             builtHandlers, mapOutcome, lookupArg, lookupResult>>

handlerVars == <<ehTable, ehOffset, ehException, ehResult>>

unwindVars == <<uwNext, uwMethod, uwOffset, uwException, uwThreadFrame,
                uwEntryFrame, uwFrame, uwPc, uwJump>>

framesVars == <<stack, stackPointer, basePointer, frThreadFrame, activations,
                entries>>

stubVars == <<methodStub_, nativeInvoker_, stPc, stRoutine, stLocal, stCalls, stEmitted, stReturned>>

footprintVars == <<fpParams, fpStatic, fpCalled, fpResult, fpStop>>

initVars == <<icFlags, icLock, icStack, icException, icRuns, icLast>>

nativeVars == <<nvCode, nvException, nvPc, nvCall, nvCalls>>

argumentVars == <<argParams, argThis, argEntry, argFit, argCalled, argArray, argSize,
                  argStale, argMask>>

discardVars == <<cxBody, cxIp, cxHelper, cxPool, cxException, cxPc, cxLocal, cxCompiled, cxCode, cxOutcome>>

arrayVars == <<abLength, abIndex, abOp, abReturnCode, abPc, abAccessed, abThrowNew, abException, abResult, abReturned>>

bufferVars == <<bufData, bufPosition, bufCapacity, bufMinimum, bufOutside,
                bufExpected, bufAppends>>

poolVars == <<prBody, prIp, prCode, prPool, prReturned, prClobbered,
              prMachineIPs, prJumps, prPc, prAt, prRegister>>

jumpVars == <<jmMethod, jmCode, jmJumps, jmResolved, jmOutcome>>

newArrayVars == <<naOp, naLength, naAt, naRax, naFlags, naArgument, naThrown,
                  naAllocated, naPushed>>

throwVars == <<thArgument, thException, thPc, thCalls>>

wideVars == <<wdKind, wdFirst, wdSecond, wdStack, wdRegisters, wdMemory, wdAt>>

lineNumberVars ==
  <<lnMethod, lnTable, lnAt, lnIp, lnCodeLength, lnIndex, lnEmitted, lnOutside>>

vars == <<compileVars, BytesPerWord, patchVars, invokeVars, mapVars, handlerVars, unwindVars, framesVars, stubVars, footprintVars, initVars, nativeVars, argumentVars, discardVars, arrayVars, bufferVars, poolVars, jumpVars, newArrayVars, throwVars, wideVars, lineNumberVars>>

(***************************************************************************)
(* Bounds of the model.                                                    *)
(***************************************************************************)
NumThreads == 2
MaxCalls == 2
MaxPrefix == 9
MaxExecutions == 2

Threads == 1..NumThreads

(***************************************************************************)
(* compileMethod2, lines 2224-2256.                                        *)
(*                                                                         *)
(* Compiled records are numbered in allocation order; the method stub,     *)
(* emitted by MyProcessor::methodStub before any method can point at it,   *)
(* is record 0.  The unlocked read of method.compiled at line 2227 is a    *)
(* word read: it yields the value before or after a concurrent store.      *)
(***************************************************************************)
MethodStub == 0
NoValue == -1

CompileIdle ==
  /\ methodCompiled = MethodStub
  /\ methodCode = "bytecode"
  /\ classLock = 0
  /\ cmPc = [t \in Threads |-> "idle"]
  /\ cmLocalCode = [t \in Threads |-> NoValue]
  /\ cmObserved = [t \in Threads |-> NoValue]
  /\ cmCalls = [t \in Threads |-> 0]
  /\ codeRecords = 0

\* A thread enters compileMethod2 (from compileMethod, called by the stub).
CompileMethod2Enter(t) ==
  /\ cmPc[t] = "idle"
  /\ cmCalls[t] < MaxCalls
  /\ cmPc' = [cmPc EXCEPT ![t] = "check"]
  /\ cmCalls' = [cmCalls EXCEPT ![t] = @ + 1]
  /\ cmLocalCode' = [cmLocalCode EXCEPT ![t] = NoValue]
  /\ cmObserved' = [cmObserved EXCEPT ![t] = NoValue]
  /\ UNCHANGED <<methodCompiled, methodCode, classLock, codeRecords>>

\* line 2227: if (methodCompiled(t, method) == methodStub(t)), without the lock
CompileMethod2Check(t) ==
  /\ cmPc[t] = "check"
  /\ cmPc' = [cmPc EXCEPT ![t] =
                IF methodCompiled = MethodStub THEN "acquire" ELSE "return"]
  /\ UNCHANGED <<methodCompiled, methodCode, classLock, cmLocalCode,
                 cmObserved, cmCalls, codeRecords>>

\* line 2230: ACQUIRE(t, t->m->classLock)
CompileMethod2Acquire(t) ==
  /\ cmPc[t] = "acquire"
  /\ classLock = 0
  /\ classLock' = t
  /\ cmPc' = [cmPc EXCEPT ![t] = "recheck"]
  /\ UNCHANGED <<methodCompiled, methodCode, cmLocalCode, cmObserved,
                 cmCalls, codeRecords>>

\* The re-check left out: compile whatever method.compiled holds.
CompileMethod2RecheckSkipped(t) ==
  /\ cmPc[t] = "recheck"
  /\ cmPc' = [cmPc EXCEPT ![t] = "compile"]
  /\ UNCHANGED <<methodCompiled, methodCode, classLock, cmLocalCode,
                 cmObserved, cmCalls, codeRecords>>

\* line 2232: the same comparison again, now under classLock
CompileMethod2Recheck(t) ==
  /\ cmPc[t] = "recheck"
  /\ cmPc' = [cmPc EXCEPT ![t] =
                IF methodCompiled = MethodStub THEN "compile" ELSE "release"]
  /\ UNCHANGED <<methodCompiled, methodCode, classLock, cmLocalCode,
                 cmObserved, cmCalls, codeRecords>>

\* lines 2239-2240: Compiler c(t); Code* code = c.compile(method);
CompileMethod2Compile(t) ==
  /\ cmPc[t] = "compile"
  /\ codeRecords' = codeRecords + 1
  /\ cmLocalCode' = [cmLocalCode EXCEPT ![t] = codeRecords + 1]
  /\ cmPc' = [cmPc EXCEPT ![t] = "store"]
  /\ UNCHANGED <<methodCompiled, methodCode, classLock, cmObserved, cmCalls>>

\* line 2250: set(t, methodCompiled(t, method), compiled): the record just made
CompileMethod2Store(t) ==
  /\ cmPc[t] = "store"
  /\ methodCompiled' = cmLocalCode[t]
  /\ cmPc' = [cmPc EXCEPT ![t] = "pool"]
  /\ UNCHANGED <<methodCode, classLock, cmLocalCode, cmObserved, cmCalls,
                 codeRecords>>

\* lines 2252-2253: object pool = c.makePool(); set(t, methodCode(t, method), pool);
CompileMethod2Pool(t) ==
  /\ cmPc[t] = "pool"
  /\ methodCode' = "pool"
  /\ cmPc' = [cmPc EXCEPT ![t] = "release"]
  /\ UNCHANGED <<methodCompiled, classLock, cmLocalCode, cmObserved, cmCalls,
                 codeRecords>>

\* line 2254: the end of the block ACQUIRE was declared in releases classLock
CompileMethod2Release(t) ==
  /\ cmPc[t] = "release"
  /\ classLock = t
  /\ classLock' = 0
  /\ cmPc' = [cmPc EXCEPT ![t] = "return"]
  /\ UNCHANGED <<methodCompiled, methodCode, cmLocalCode, cmObserved,
                 cmCalls, codeRecords>>

\* The call returns; its caller (the stub, line 2157-2158) reads method.compiled.
CompileMethod2Return(t) ==
  /\ cmPc[t] = "return"
  /\ cmObserved' = [cmObserved EXCEPT ![t] = methodCompiled]
  /\ cmPc' = [cmPc EXCEPT ![t] = "idle"]
  /\ UNCHANGED <<methodCompiled, methodCode, classLock, cmLocalCode,
                 cmCalls, codeRecords>>

NextCompile ==
  \E t \in Threads :
    \/ CompileMethod2Enter(t)
    \/ CompileMethod2Check(t)
    \/ CompileMethod2Acquire(t)
    \/ CompileMethod2Recheck(t)
    \/ CompileMethod2Compile(t)
    \/ CompileMethod2Store(t)
    \/ CompileMethod2Pool(t)
    \/ CompileMethod2Release(t)
    \/ CompileMethod2Return(t)

rax == 0
rsp == 4
rbp == 5
rdi == 7

\* Buffer::append4, lines 68-72: four bytes, little-endian
Append4Bytes(v) ==
  << v % 256, (v \div 256) % 256, (v \div 65536) % 256, (v \div 16777216) % 256 >>

\* Buffer::appendAddress, lines 96-105
\* The low and the high 32 bits of an address.
Low32(v) == (v % 65536) + 65536 * ((v \div 65536) % 65536)
High32(v) == (v \div 65536) \div 65536

AppendAddressBytes(v) ==
  IF BytesPerWord = 8
    THEN Append4Bytes(Low32(v)) \o Append4Bytes(High32(v))
    ELSE Append4Bytes(Low32(v))

\* Assembler::rex, lines 521-525
Rex == IF BytesPerWord = 8 THEN <<72>> ELSE <<>>

\* Assembler::mov(uintptr_t v, Register dst), lines 640-644
MovImmediate(v, dst) == Rex \o <<184 + dst>> \o AppendAddressBytes(v)

\* Assembler::alignedMov, lines 646-653: nops until the immediate is aligned
RECURSIVE AlignedMov(_, _, _)
AlignedMov(code, v, dst) ==
  IF (Len(code) + (IF BytesPerWord = 8 THEN 2 ELSE 1)) % BytesPerWord # 0
    THEN AlignedMov(Append(code, 144), v, dst)
    ELSE code \o MovImmediate(v, dst)

\* Assembler::call(Register), lines 895-898
CallRegister(reg) == <<255, 208 + reg>>

\* Assembler::push(Register), lines 659-661
PushRegister(reg) == <<80 + reg>>

\* Assembler::push(Register, int32_t offset) through offsetInstruction, lines
\* 533-561 and 663-665, for the one-byte offsets the call template uses
PushMemory(reg, offset) ==
  <<255>>
  \o << (IF offset = 0 /\ reg # rbp THEN 48 ELSE 112) + reg >>
  \o (IF reg = rsp THEN <<36>> ELSE <<>>)
  \o (IF offset = 0 /\ reg # rbp THEN <<>> ELSE <<offset>>)

(***************************************************************************)
(* Compiled records.  class Code, lines 124-166: three uint32_t length     *)
(* fields, then the code region body[].  A record is allocated by          *)
(* Compiler::finish (line 2174) at a word-aligned address.                 *)
(***************************************************************************)
CodeHeaderSize == 12

\* Code::code(), lines 136-138
CodeBody(record) == record + CodeHeaderSize

\* The records of the method stub and of the call target, as allocated.
StubRecord == 64 * BytesPerWord
TargetRecord == 96 * BytesPerWord
CallerRecords == { (128 + k) * BytesPerWord : k \in 0..1 }

FrameThread == BytesPerWord * 2
FrameMethod == FrameThread + BytesPerWord
FrameFootprint == BytesPerWord * 3

\* The bytes of an address field at `offset` of a code region, as a number.
RECURSIVE ReadBytes(_, _, _)
ReadBytes(code, offset, n) ==
  IF n = 0 THEN 0
  ELSE code[offset + 1] + 256 * ReadBytes(code, offset + 1, n - 1)

ReadAddress(code, offset) == ReadBytes(code, offset, BytesPerWord)

WriteAddress(code, offset, v) ==
  [i \in 1..Len(code) |->
     IF i > offset /\ i <= offset + BytesPerWord
       THEN AppendAddressBytes(v)[i - offset]
       ELSE code[i]]

\* Compiler::callAlignedAddress, lines 2208-2212
CallAlignedAddress(code, function) ==
  AlignedMov(code, function, rax) \o CallRegister(rax)

\* Compiler::compileDirectInvoke, lines 991-1001, up to the call: the pool
\* reference of the target is its offset in the pool array.
CompileDirectInvoke(code, poolOffset) ==
  CallAlignedAddress
    (code \o PushRegister(rsp) \o PushMemory(rdi, poolOffset)
          \o PushMemory(rbp, FrameThread),
     CodeBody(targetCompiled))

\* The offset of the immediate in the caller's code: it ends where the call
\* instruction (two bytes) before the return address begins.
ImmediateOffset == returnOffset - 2 - BytesPerWord

PatchIdle ==
  /\ callKind = "static"
  /\ targetVirtual = FALSE
  /\ targetCompiled = 0
  /\ callerBase = 0
  /\ callerCode = <<>>
  /\ returnOffset = 0
  /\ patchPc = "idle"
  /\ siteExecutions = 0
  /\ stubEntries = 0
  /\ directEntries = 0

\* invokestatic targets are static; invokespecial may target a virtual method
\* of the superclass (lines 1757-1782).
InitPatch ==
  /\ callKind \in {"static", "special"}
  /\ targetVirtual \in (IF callKind = "static" THEN {FALSE} ELSE BOOLEAN)
  /\ targetCompiled = StubRecord
  /\ callerBase = 0
  /\ callerCode = <<>>
  /\ returnOffset = 0
  /\ patchPc = "uncompiled"
  /\ siteExecutions = 0
  /\ stubEntries = 0
  /\ directEntries = 0

\* Compiler::compile of the caller: `n` bytes of earlier code (prologue and
\* earlier instructions), then the call template; the record is allocated by
\* finish().  The code after the call (add, pushReturnValue, return) follows.
CompileCaller ==
  /\ patchPc = "uncompiled"
  /\ \E n \in 0..MaxPrefix, base \in CallerRecords :
       LET site == CompileDirectInvoke([i \in 1..n |-> 80], 2 * BytesPerWord)
       IN /\ callerCode' = site \o <<195>>
          /\ returnOffset' = Len(site)
          /\ callerBase' = base
  /\ patchPc' = "ready"
  /\ UNCHANGED <<callKind, targetVirtual, targetCompiled, siteExecutions,
                 stubEntries, directEntries>>

\* The target is compiled through another entry (invoke, another call site):
\* compileMethod2 stores the new record, no call site of this caller is touched.
CompileTargetElsewhere ==
  /\ patchPc \in {"uncompiled", "ready"}
  /\ targetCompiled = StubRecord
  /\ targetCompiled' = TargetRecord
  /\ UNCHANGED <<callKind, targetVirtual, callerBase, callerCode, returnOffset,
                 patchPc, siteExecutions, stubEntries, directEntries>>

\* The caller runs the call site: mov imm -> rax; call rax.
ExecuteCallSite ==
  /\ patchPc = "ready"
  /\ siteExecutions < MaxExecutions
  /\ siteExecutions' = siteExecutions + 1
  /\ IF ReadAddress(callerCode, ImmediateOffset) = CodeBody(StubRecord)
       THEN /\ patchPc' = "stub"
            /\ stubEntries' = stubEntries + 1
            /\ UNCHANGED directEntries
       ELSE /\ patchPc' = "target"
            /\ directEntries' = directEntries + 1
            /\ UNCHANGED stubEntries
  /\ UNCHANGED <<callKind, targetVirtual, targetCompiled, callerBase,
                 callerCode, returnOffset>>

\* updateCaller, lines 2258-2282.  The reference copy is mov(stub, rax) and
\* call(rax); `caller` is the return address saved in t->frame[1] less its
\* length.  The result is the caller's code and whether the assertion of
\* lines 2276-2277 failed.
UpdateCaller(code) ==
  LET reference == MovImmediate(CodeBody(StubRecord), rax) \o CallRegister(rax)
      offset == Len(MovImmediate(CodeBody(StubRecord), rax)) - BytesPerWord
      caller == returnOffset - Len(reference)
      callerAddress == CodeBody(callerBase) + caller
  IN IF caller >= 0
        /\ SubSeq(code, caller + 1, caller + Len(reference)) = reference
       THEN IF (callerAddress + offset) % BytesPerWord = 0
              THEN [aborted |-> FALSE,
                    code |-> WriteAddress(code, caller + offset,
                                          CodeBody(TargetRecord))]
              ELSE [aborted |-> TRUE, code |-> code]
       ELSE [aborted |-> FALSE, code |-> code]

\* The stub calls compileMethod (lines 2284-2294): compileMethod2 compiles the
\* target if it is still the stub, then updateCaller runs unless the target is
\* virtual.
StubCompileMethod ==
  /\ patchPc = "stub"
  /\ targetCompiled' = TargetRecord
  /\ IF targetVirtual
       THEN /\ patchPc' = "target"
            /\ UNCHANGED callerCode
       ELSE /\ patchPc' = IF UpdateCaller(callerCode).aborted
                            THEN "aborted" ELSE "target"
            /\ callerCode' = UpdateCaller(callerCode).code
  /\ UNCHANGED <<callKind, targetVirtual, callerBase, returnOffset,
                 siteExecutions, stubEntries, directEntries>>

\* The target's code runs and returns to the caller.
TargetReturn ==
  /\ patchPc = "target"
  /\ patchPc' = "ready"
  /\ UNCHANGED <<callKind, targetVirtual, targetCompiled, callerBase,
                 callerCode, returnOffset, siteExecutions, stubEntries,
                 directEntries>>

NextPatch ==
  \/ CompileCaller
  \/ CompileTargetElsewhere
  \/ ExecuteCallSite
  \/ StubCompileMethod
  \/ TargetReturn

(***************************************************************************)
(* C2: a call site compiled for invokestatic while the target was the stub *)
(* is patched by its first execution: once that execution is over, the     *)
(* address field holds the target's entry, and the stub is entered at most *)
(* once from the site.                                                     *)
(***************************************************************************)
LazyCompileAndPatch ==
  (callKind = "static" /\ siteExecutions >= 1 /\ patchPc \in {"ready", "aborted"})
    => /\ ReadAddress(callerCode, ImmediateOffset) = CodeBody(TargetRecord)
       /\ stubEntries <= 1

(***************************************************************************)
(* C4: the address of the immediate field of every call site emitted by    *)
(* callAlignedAddress is a multiple of the word size, at any code length   *)
(* and for both word sizes.                                                *)
(***************************************************************************)
PatchFieldAligned ==
  patchPc # "uncompiled"
    => (CodeBody(callerBase) + ImmediateOffset) % BytesPerWord = 0

(***************************************************************************)
(* C22: every direct call site, of invokestatic or of invokespecial and    *)
(* with a target flagged virtual or not, holds the target's entry in its   *)
(* address field once its first execution is over.                         *)
(***************************************************************************)
DirectSitePatched ==
  (callKind \in {"static", "special"} /\ siteExecutions >= 1
     /\ patchPc \in {"ready", "aborted"})
    => ReadAddress(callerCode, ImmediateOffset) = CodeBody(TargetRecord)

\* With a word of four bytes the site of a target that is not virtual is
\* patched by its first execution.
DirectSitePatchedUnlessVirtual ==
  (BytesPerWord = 4 /\ ~targetVirtual /\ siteExecutions >= 1
     /\ patchPc = "ready")
    => ReadAddress(callerCode, ImmediateOffset) = CodeBody(TargetRecord)

\* The site of a virtual target is never written after it was compiled: each
\* of its executions enters the stub when it was compiled against the stub.
VirtualTargetSiteKept ==
  [][(targetVirtual /\ patchPc # "uncompiled") => callerCode' = callerCode]_vars

(***************************************************************************)
(* The invoke bridge, lines 2456-2508 and 2646-2730.  The chain of local   *)
(* references is the sequence of its nodes, the head (t->reference) first; *)
(* a node is named by its address.  Each activation of invoke() holds its  *)
(* locals `frame` and `reference`; besides these it records the chain at   *)
(* entry and what the called code did, which the program does not store.   *)
(***************************************************************************)
MaxRefs == 2
MaxDepth == 2
MaxFrame == 1

ReferenceAddresses == 1..MaxRefs
Frames == 0..MaxFrame

InvokeKinds == {"invokeArray", "invokeList", "invokeListByName"}

NoInvoke == [made |-> FALSE, thrown |-> FALSE, nested |-> FALSE,
             invoked |-> FALSE]

InvokeIdle ==
  /\ threadReference = <<>>
  /\ threadFrame = 0
  /\ invokeStack = <<>>
  /\ lastInvoke = NoInvoke

\* t->reference: the first node of the chain, 0 when the chain is empty
HeadReference(chain) == IF chain = <<>> THEN 0 ELSE Head(chain)

\* Reference::Reference(o, &(t->reference)): the new node becomes the head
PushReference(chain, r) == <<r>> \o chain

\* vm::dispose(t, r): the node is unlinked from the chain
DisposeReference(chain, r) == SelectSeq(chain, LAMBDA x : x # r)

\* The loop of invoke with no iteration.
DisposeNothing(chain, reference) == chain

\* invoke, lines 2472-2474:
\*   while (t->reference != reference) dispose(t, t->reference);
RECURSIVE DisposeUntil(_, _)
DisposeUntil(chain, reference) ==
  IF chain = <<>> THEN chain
  ELSE IF Head(chain) = reference THEN chain
  ELSE DisposeUntil(DisposeReference(chain, Head(chain)), reference)

\* The nodes created since the running activation of invoke was entered: the
\* ones in front of the head it saved (all of them outside any invoke).
OwnReferences ==
  IF invokeStack = <<>>
    THEN {threadReference[i] : i \in 1..Len(threadReference)}
    ELSE LET saved == invokeStack[Len(invokeStack)].reference
         IN {threadReference[i] : i \in
               {j \in 1..Len(threadReference) :
                  \A k \in 1..j : threadReference[k] # saved}}

Running ==
  IF invokeStack = <<>> THEN TRUE ELSE ~invokeStack[Len(invokeStack)].thrown

NoteInTop(field) ==
  IF invokeStack = <<>> THEN invokeStack
  ELSE [invokeStack EXCEPT ![Len(invokeStack)][field] = TRUE]

\* invokeArray, invokeList (lines 2669-2709) and invokeList by name with the
\* method resolved (lines 2711-2726): build the argument list and run invoke
\* (lines 2456-2470) up to the entry into the method's code through vmInvoke.
InvokeEnter(kind) ==
  /\ Running
  /\ Len(invokeStack) < MaxDepth
  /\ invokeStack' =
       Append(NoteInTop("nested"),
              [frame |-> threadFrame,
               reference |-> HeadReference(threadReference),
               chainAtEntry |-> threadReference,
               made |-> FALSE, thrown |-> FALSE, nested |-> FALSE])
  /\ UNCHANGED <<threadReference, threadFrame, lastInvoke>>

\* invokeList by name, lines 2722-2729: resolveMethod sets t->exception and
\* the entry returns 0 without running invoke.
InvokeListUnresolved ==
  /\ Running
  /\ lastInvoke' = [made |-> FALSE, thrown |-> TRUE, nested |-> FALSE,
                    invoked |-> FALSE]
  /\ UNCHANGED <<threadReference, threadFrame, invokeStack>>

\* makeLocalReference, lines 2646-2659, with a non-null object: the allocator
\* returns any address not in use.
MakeLocalReference ==
  /\ Running
  /\ \E r \in ReferenceAddresses :
       /\ \A i \in 1..Len(threadReference) : threadReference[i] # r
       /\ threadReference' = PushReference(threadReference, r)
  /\ invokeStack' = NoteInTop("made")
  /\ UNCHANGED <<threadFrame, lastInvoke>>

\* disposeLocalReference, lines 2661-2667, by the code that made the reference
DisposeLocalReference ==
  /\ Running
  /\ \E r \in OwnReferences :
       threadReference' = DisposeReference(threadReference, r)
  /\ UNCHANGED <<threadFrame, invokeStack, lastInvoke>>

\* Called code enters or leaves a compiled method, the stub or the native
\* invoker, which store their frame pointer in t->frame (lines 2110-2111,
\* 2139-2140, and the prologue and the returns of compiled methods).
CalledSetFrame ==
  /\ invokeStack # <<>>
  /\ Running
  /\ \E f \in Frames : f # threadFrame /\ threadFrame' = f
  /\ UNCHANGED <<threadReference, invokeStack, lastInvoke>>

\* The called code throws and nothing catches: unwind (lines 256-276) stores
\* the frame it stops at in t->frame and jumps to the return address that
\* leads back into vmInvoke.
CalledUnwind ==
  /\ invokeStack # <<>>
  /\ Running
  /\ \E f \in Frames : threadFrame' = f
  /\ invokeStack' = NoteInTop("thrown")
  /\ UNCHANGED <<threadReference, lastInvoke>>

\* vmInvoke returns, normally or after an unwind, and invoke runs to its end
\* (lines 2472-2507): the dispose loop, t->frame = frame, boxing the result.
InvokeReturn ==
  /\ invokeStack # <<>>
  /\ LET top == invokeStack[Len(invokeStack)]
     IN /\ threadReference' = DisposeUntil(threadReference, top.reference)
        /\ threadFrame' = top.frame
        /\ lastInvoke' = [made |-> top.made, thrown |-> top.thrown,
                          nested |-> top.nested, invoked |-> TRUE]
  /\ invokeStack' = SubSeq(invokeStack, 1, Len(invokeStack) - 1)

NextInvoke ==
  \/ \E kind \in InvokeKinds : InvokeEnter(kind)
  \/ InvokeListUnresolved
  \/ MakeLocalReference
  \/ DisposeLocalReference
  \/ CalledSetFrame
  \/ CalledUnwind
  \/ InvokeReturn

(***************************************************************************)
(* C3: whenever an invoke entry returns, whatever the called code did,     *)
(* thread.reference is the head it was at entry, the chain holds exactly   *)
(* the references it held at entry, and thread.frame is the frame at       *)
(* entry.                                                                  *)
(***************************************************************************)
InvokeRestores ==
  [][ Len(invokeStack') < Len(invokeStack)
        => LET top == invokeStack[Len(invokeStack)]
           IN /\ HeadReference(threadReference') = top.reference
              /\ threadReference' = top.chainAtEntry
              /\ threadFrame' = top.frame ]_vars

\* An entry has returned after the called code made references,
\* ran a nested invoke and threw.
InvokeRestoresWitness ==
  /\ lastInvoke.invoked
  /\ lastInvoke.made
  /\ lastInvoke.nested
  /\ lastInvoke.thrown
  /\ threadReference # <<>>
  /\ threadFrame # 0

(***************************************************************************)
(* Compiler::compile, lines 1111-2049, and the map from bytecode ips to    *)
(* machine ips, lines 2051-2104.  A method is a pattern of instructions    *)
(* repeated a number of times, so that long methods have a short           *)
(* description; its branches all go to one target, and it has at most one  *)
(* exception handler.                                                      *)
(***************************************************************************)
MaxPattern == 2
MaxRepeat == 3
LongRepeat == 13108

Opcodes == {"iconst_0", "bipush", "goto_", "goto_w", "return_"}

\* The bytes an instruction takes in the bytecode: the opcode, read by
\* codeBody(t, code, ip++) at line 1156, and its operands (lines 1404, 1549,
\* 1554).
InstructionLength(op) ==
  CASE op = "iconst_0" -> 1
    [] op = "bipush"   -> 2
    [] op = "goto_"    -> 3
    [] op = "goto_w"   -> 5
    [] op = "return_"  -> 1

\* Assembler::push(int32_t) of a byte, lines 667-675
PushByte(v) == <<106, v>>

\* Assembler::jmp(unsigned javaIP), lines 804-811: opcode and placeholder
JmpJavaIp == <<233>> \o Append4Bytes(0)

\* Assembler::mov(Register, Register), lines 527-531
MovRegister(src, dst) == Rex \o <<137, 192 + src * 8 + dst>>

\* Assembler::pop(Register), lines 697-699, and ret, lines 795-797
PopRegister(dst) == <<88 + dst>>
Ret == <<195>>

\* The machine code of one instruction (lines 1404, 1549, 1554, 1588, 2031)
Emitted(op) ==
  CASE op = "iconst_0" -> PushByte(0)
    [] op = "bipush"   -> PushByte(7)
    [] op = "goto_"    -> JmpJavaIp
    [] op = "goto_w"   -> JmpJavaIp
    [] op = "return_"  -> MovRegister(rbp, rsp) \o PopRegister(rbp) \o Ret

\* compile, lines 1122-1123: push(rbp); mov(rsp, rbp), the locals fitting in
\* the parameter area
Prologue == PushRegister(rbp) \o MovRegister(rsp, rbp)

IsJump(op) == op \in {"goto_", "goto_w"}

Patterns ==
  UNION {[1..n -> Opcodes] : n \in 1..MaxPattern}

NumInstructions(m) == Len(m.pattern) * m.repeat

RECURSIVE PrefixBytes(_, _)
PrefixBytes(pattern, k) ==
  IF k = 0 THEN 0
  ELSE PrefixBytes(pattern, k - 1) + InstructionLength(pattern[k])

RECURSIVE PrefixEmitted(_, _)
PrefixEmitted(pattern, k) ==
  IF k = 0 THEN 0
  ELSE PrefixEmitted(pattern, k - 1) + Len(Emitted(pattern[k]))

\* The value of `ip` at the head of the loop of compile (line 1138) when it
\* reaches instruction i, counted from 1; i = NumInstructions + 1 gives the
\* value that ends the loop, codeLength(t, code).
StartIp(m, i) ==
  ((i - 1) \div Len(m.pattern)) * PrefixBytes(m.pattern, Len(m.pattern))
  + PrefixBytes(m.pattern, (i - 1) % Len(m.pattern))

\* The value of code.length() at the same point (line 1140).
StartOffset(m, i) ==
  Len(Prologue)
  + ((i - 1) \div Len(m.pattern)) * PrefixEmitted(m.pattern, Len(m.pattern))
  + PrefixEmitted(m.pattern, (i - 1) % Len(m.pattern))

BytecodeLength(m) == StartIp(m, NumInstructions(m) + 1)

\* Append2 keeping eight bits only.
Append2Narrow(v) == v % 256

\* Buffer::append2 and get2, lines 62-66 and 84-88: sixteen bits are kept
Append2(v) == v % 65536

\* compile, lines 1138-1140: the two buffers after the loop
JavaIPsOf(m) == [i \in 1..NumInstructions(m) |-> Append2(StartIp(m, i))]
MachineIPsOf(m) == [i \in 1..NumInstructions(m) |-> Low32(StartOffset(m, i))]

\* machineIpForJavaIp, lines 2051-2068; NoValue stands for abort(code.s).
RECURSIVE Search(_, _, _, _, _)
Search(keys, values, bottom, top, javaIP) ==
  IF top - bottom = 0 THEN NoValue
  ELSE LET middle == bottom + ((top - bottom) \div 2)
           k == keys[middle + 1]
       IN IF javaIP < k THEN Search(keys, values, bottom, middle, javaIP)
          ELSE IF javaIP > k
            THEN Search(keys, values, middle + 1, top, javaIP)
            ELSE values[middle + 1]

\* The parameter is a uint16_t: the argument is converted at the call.
MachineIpForJavaIp(keys, values, javaIP) ==
  Search(keys, values, 0, Len(keys), javaIP % 65536)

\* The bytecode ips a method may name: the first and the last instruction.
TargetIp(m, which) ==
  IF which = "first" THEN 0 ELSE StartIp(m, NumInstructions(m))

\* The handler tables: none, or one entry that starts at the first
\* instruction, ends before the last instruction or at the end of the
\* bytecode, and has its handler at the first or the last instruction.
HandlerTables(m) ==
  {<<>>} \cup
  { <<[start |-> 0, end |-> e, ip |-> TargetIp(m, h), catchType |-> 0]>> :
      e \in {StartIp(m, NumInstructions(m)), BytecodeLength(m)} \ {0},
      h \in {"first", "last"} }

ShortMethods ==
  UNION { { [pattern |-> p, repeat |-> r, target |-> w, handlers |-> <<>>] :
              w \in {"first", "last"} } :
            p \in Patterns, r \in 1..MaxRepeat }

\* Methods of goto_w instructions only, five bytes each: with LongRepeat of
\* them the last one starts at ip 65535, with one more at 65540.
LongMethods ==
  { [pattern |-> <<"goto_w">>, repeat |-> r, target |-> w, handlers |-> <<>>] :
      r \in {LongRepeat, LongRepeat + 1}, w \in {"first", "last"} }

HasJump(m) == \E k \in 1..Len(m.pattern) : IsJump(m.pattern[k])

NoMethod == [pattern |-> <<>>, repeat |-> 0, target |-> "first",
             handlers |-> <<>>]

MapIdle ==
  /\ mapMethod = NoMethod
  /\ javaIPs = <<>>
  /\ machineIPs = <<>>
  /\ mapCodeLength = 0
  /\ jumpTarget = NoValue
  /\ builtHandlers = <<>>
  /\ mapOutcome = "none"
  /\ lookupArg = NoValue
  /\ lookupResult = NoValue

\* resolveJumps, lines 2070-2077: every entry of the jumps buffer names the
\* same bytecode ip, so one lookup decides them all.
ResolvedJump(m, keys, values) ==
  IF HasJump(m) THEN MachineIpForJavaIp(keys, values, TargetIp(m, m.target))
  ELSE 0

\* buildExceptionHandlerTable, lines 2079-2104, for one entry
BuiltHandler(eh, keys, values) ==
  [start |-> MachineIpForJavaIp(keys, values, eh.start),
   end |-> MachineIpForJavaIp(keys, values, eh.end),
   ip |-> MachineIpForJavaIp(keys, values, eh.ip),
   catchType |-> 0]

HandlerAborts(h) == NoValue \in {h.start, h.end, h.ip}

\* Compiler::compile: prologue, the loop over the instructions, resolveJumps,
\* buildExceptionHandlerTable.  The process aborts at the first lookup that
\* fails.
Compile(m) ==
  /\ mapMethod' = m
  /\ javaIPs' = JavaIPsOf(m)
  /\ machineIPs' = MachineIPsOf(m)
  /\ mapCodeLength' = StartOffset(m, NumInstructions(m) + 1)
  /\ LET jump == ResolvedJump(m, javaIPs', machineIPs')
         built == [i \in 1..Len(m.handlers) |->
                     BuiltHandler(m.handlers[i], javaIPs', machineIPs')]
     IN IF jump = NoValue
          THEN /\ jumpTarget' = NoValue
               /\ builtHandlers' = <<>>
               /\ mapOutcome' = "aborted"
          ELSE /\ jumpTarget' = jump
               /\ IF \E i \in 1..Len(built) : HandlerAborts(built[i])
                    THEN /\ builtHandlers' = <<>>
                         /\ mapOutcome' = "aborted"
                    ELSE /\ builtHandlers' = built
                         /\ mapOutcome' = "compiled"
  /\ UNCHANGED <<lookupArg, lookupResult>>

CompileShort ==
  /\ mapOutcome = "none"
  /\ \E m \in ShortMethods :
       \E table \in HandlerTables(m) : Compile([m EXCEPT !.handlers = table])

CompileLong ==
  /\ mapOutcome = "none"
  /\ \E m \in LongMethods : Compile(m)

\* The ips looked up once the buffers are built: those of the first two and
\* the last two instructions, and the length of the bytecode.
LookupIps(m) ==
  {StartIp(m, i) : i \in {1, 2, NumInstructions(m), NumInstructions(m) + 1}}

\* machineIpForJavaIp called on the finished buffers
LookupIp ==
  /\ mapOutcome # "none"
  /\ \E ip \in LookupIps(mapMethod) :
       /\ lookupArg' = ip
       /\ lookupResult' = MachineIpForJavaIp(javaIPs, machineIPs, ip)
  /\ UNCHANGED <<mapMethod, javaIPs, machineIPs, mapCodeLength, jumpTarget,
                 builtHandlers, mapOutcome>>

NextMap ==
  \/ CompileShort
  \/ CompileLong
  \/ LookupIp

\* The bytecode ips the method uses as branch target and in its handler table
UsedIps(m) ==
  (IF HasJump(m) THEN {TargetIp(m, m.target)} ELSE {})
  \cup UNION { {m.handlers[i].start, m.handlers[i].end, m.handlers[i].ip} :
                 i \in 1..Len(m.handlers) }

(***************************************************************************)
(* C5: after a compile, machineIpForJavaIp finds every bytecode ip used as *)
(* a branch target or as start, end or handler ip of a handler table entry *)
(* (an end ip equal to the bytecode length included) and returns an offset *)
(* inside the emitted code; the compile does not abort.                    *)
(***************************************************************************)
UsedIpsFound ==
  mapOutcome # "none"
    => /\ mapOutcome = "compiled"
       /\ \A ip \in UsedIps(mapMethod) :
            MachineIpForJavaIp(javaIPs, machineIPs, ip) \in 0..mapCodeLength

\* The map has one entry per instruction, keys and offsets strictly
\* increasing, and the search returns the offset recorded for each ip.
MapSearchable ==
  LET n == NumInstructions(mapMethod)
  IN /\ Len(javaIPs) = n
     /\ Len(machineIPs) = n
     /\ \A i \in 1..n :
          /\ machineIPs[i] = StartOffset(mapMethod, i)
          /\ i < n => /\ javaIPs[i] < javaIPs[i + 1]
                      /\ machineIPs[i] < machineIPs[i + 1]
          /\ MachineIpForJavaIp(javaIPs, machineIPs, StartIp(mapMethod, i))
               = machineIPs[i]

AllIpsFitKey(m) == StartIp(m, NumInstructions(m)) < 65536

(***************************************************************************)
(* C6, as stated: for every compiled method, whatever its length, the map  *)
(* has one entry per instruction start, bytecode ips and machine offsets   *)
(* strictly increasing, and the binary search returns for every recorded   *)
(* ip the machine offset recorded for it.                                  *)
(***************************************************************************)
MapSearchableAnyIp ==
  mapOutcome # "none" => MapSearchable

(***************************************************************************)
(* C6, amended: the same for every method whose instruction starts all fit *)
(* the 2-byte key of the map (are below 65536).                            *)
(***************************************************************************)
MapSearchableInKey ==
  (mapOutcome # "none" /\ AllIpsFitKey(mapMethod)) => MapSearchable

\* A long method whose ips all fit the key was compiled, and the ip of its
\* last instruction was looked up and found.
MapSearchableWitness ==
  /\ mapOutcome = "compiled"
  /\ NumInstructions(mapMethod) = LongRepeat
  /\ AllIpsFitKey(mapMethod)
  /\ lookupArg = StartIp(mapMethod, LongRepeat)
  /\ lookupArg > 256
  /\ lookupResult = machineIPs[LongRepeat]

(***************************************************************************)
(* findExceptionHandler, lines 225-254.  The offsets of a handler table    *)
(* are unsigned 32-bit numbers, kept as <<high half, low half>>.           *)
(***************************************************************************)
MaxHandlers == 2
MaxOffset == 2

U32(v) == <<v \div 65536, v % 65536>>

\* unsigned subtraction of 1, wrapping at 0
U32Decrement(u) ==
  IF u[2] > 0 THEN <<u[1], u[2] - 1>>
  ELSE IF u[1] > 0 THEN <<u[1] - 1, 65535>>
  ELSE <<65535, 65535>>

U32Less(a, b) == a[1] < b[1] \/ (a[1] = b[1] /\ a[2] < b[2])

\* The fault offset taken as it is.
UnbiasedOffset(offset) == U32(offset)

\* `offset - 1` of lines 234-235
BiasedOffset(offset) == U32Decrement(U32(offset))

Classes == {"Throwable", "RuntimeException", "NullPointerException"}

Superclass(c) ==
  CASE c = "NullPointerException" -> "RuntimeException"
    [] c = "RuntimeException"     -> "Throwable"
    [] c = "Throwable"            -> "none"

\* instanceOf(t, class, exception)
RECURSIVE InstanceOf(_, _)
InstanceOf(class, exceptionClass) ==
  IF exceptionClass = "none" THEN FALSE
  ELSE IF exceptionClass = class THEN TRUE
  ELSE InstanceOf(class, Superclass(exceptionClass))

\* methodCode(t, method) of a compiled method: the pool array, which holds
\* the catch types the handler table refers to
HandlerPool == <<"RuntimeException", "NullPointerException">>

\* lines 234-249, the test on one handler
HandlerMatches(handler, pool, offset, exception) ==
  /\ ~U32Less(BiasedOffset(offset), U32(handler.start))
  /\ U32Less(BiasedOffset(offset), U32(handler.end))
  /\ LET catchType == IF handler.catchType # 0
                        THEN pool[handler.catchType] ELSE "none"
     IN catchType = "none" \/ InstanceOf(catchType, exception)

\* the loop of lines 231-251 from index i on; 0 is the null result
RECURSIVE FindHandlerFrom(_, _, _, _, _)
FindHandlerFrom(i, table, pool, offset, exception) ==
  IF i > Len(table) THEN 0
  ELSE IF HandlerMatches(table[i], pool, offset, exception) THEN i
  ELSE FindHandlerFrom(i + 1, table, pool, offset, exception)

FindExceptionHandler(table, pool, offset, exception) ==
  FindHandlerFrom(1, table, pool, offset, exception)

\* The entries a compiled table can hold: start before end, the catch type 0
\* or the index (from 1) of a class in the pool.
HandlerEntries ==
  { [start |-> s, end |-> e, ip |-> e, catchType |-> ct] :
      s \in 0..MaxOffset, e \in 0..MaxOffset, ct \in 0..Len(HandlerPool) }

HandlerTableInputs ==
  UNION { {table \in [1..n -> HandlerEntries] :
             \A i \in 1..n : table[i].start < table[i].end} :
          n \in 0..MaxHandlers }

HandlerIdle ==
  /\ ehTable = <<>>
  /\ ehOffset = 0
  /\ ehException = "Throwable"
  /\ ehResult = NoValue

InitHandler ==
  /\ ehTable \in HandlerTableInputs
  /\ ehOffset \in 0..(MaxOffset + 1)
  /\ ehException \in Classes
  /\ ehResult = NoValue

\* unwind consults the handler table of the frame (line 267)
CallFindExceptionHandler ==
  /\ ehResult = NoValue
  /\ ehResult' = FindExceptionHandler(ehTable, HandlerPool, ehOffset,
                                      ehException)
  /\ UNCHANGED <<ehTable, ehOffset, ehException>>

NextHandler == CallFindExceptionHandler

\* Handler i protects offset - 1 and catches the exception.
Catches(i) ==
  /\ ehTable[i].start <= ehOffset - 1
  /\ ehOffset - 1 < ehTable[i].end
  /\ \/ ehTable[i].catchType = 0
     \/ InstanceOf(HandlerPool[ehTable[i].catchType], ehException)

(***************************************************************************)
(* C9: findExceptionHandler returns the first entry, in table order, whose *)
(* range [start, end) holds the fault offset less one and whose catch type *)
(* is 0 or a class of the pending exception, and none when there is no     *)
(* such entry.                                                             *)
(***************************************************************************)
FirstMatchingHandler ==
  ehResult # NoValue
    => IF \E i \in 1..Len(ehTable) : Catches(i)
         THEN /\ ehResult \in 1..Len(ehTable)
              /\ Catches(ehResult)
              /\ \A j \in 1..(ehResult - 1) : ~Catches(j)
         ELSE ehResult = 0

\* The fault offset is the end of the first entry's range, a later entry of
\* a narrower type matches too, and the first entry is returned.
FirstMatchingHandlerWitness ==
  /\ ehResult = 1
  /\ Len(ehTable) = 2
  /\ ehOffset = ehTable[1].end
  /\ ehTable[1].catchType = 1
  /\ ehTable[2].catchType = 2
  /\ Catches(2)
  /\ ehException = "NullPointerException"

(***************************************************************************)
(* unwind, lines 256-276, over the frame accessors of lines 182-216.  A    *)
(* frame is its address, 0 the invalid frame.  What the accessors read     *)
(* from memory is given per frame.  frameNext reads slot FrameNext /       *)
(* BytesPerWord of frameBase(frame), and FrameNext is BytesPerWord (line   *)
(* 23: the constant is initialised from its own zero value), so it reads   *)
(* the slot frameReturnAddress reads (line 215).                           *)
(***************************************************************************)
NumFrames == 2

FrameAddresses == 1..NumFrames

UnwindMethods == {"nativeMethod", "plain", "catcher"}

\* methodFlags(t, method) & ACC_NATIVE
MethodNative(method) == method = "nativeMethod"

\* The handler table of methodCompiled(t, method): "catcher" catches
\* RuntimeException in the machine offsets [0, 2) and handles it at offset 5.
MethodHandlerTable(method) ==
  IF method = "catcher"
    THEN << [start |-> 0, end |-> 2, ip |-> 5, catchType |-> 1] >>
    ELSE << >>

\* The offsets at which a frame is suspended: inside the protected range and
\* after it.
SuspendedOffsets == {1, 3}

\* frameValid, lines 182-186
FrameValid(frame) == frame # 0

\* frameNext, lines 194-198
FrameNextOf(frame) == uwNext[frame]

\* frameReturnAddress, lines 212-216: the same slot
FrameReturnAddress(frame) == uwNext[frame]

\* frameMethod, lines 200-204
FrameMethodOf(frame) == uwMethod[frame]

\* findExceptionHandler(t, frame), lines 225-254
FrameHandler(frame) ==
  FindExceptionHandler(MethodHandlerTable(FrameMethodOf(frame)), HandlerPool,
                       uwOffset[frame], uwException)

NoJump == [to |-> "nowhere", method |-> "none", at |-> 0]

UnwindIdle ==
  /\ uwNext = [f \in FrameAddresses |-> 0]
  /\ uwMethod = [f \in FrameAddresses |-> "plain"]
  /\ uwOffset = [f \in FrameAddresses |-> 1]
  /\ uwException = "Throwable"
  /\ uwThreadFrame = 0
  /\ uwEntryFrame = 0
  /\ uwFrame = 0
  /\ uwPc = "idle"
  /\ uwJump = NoJump

\* The words the accessors read are program data: any frame address, any
\* method, any offset.  t->frame is the invalid frame or the first frame.
InitUnwind ==
  /\ uwNext \in [FrameAddresses -> 0..NumFrames]
  /\ uwMethod \in [FrameAddresses -> UnwindMethods]
  /\ uwOffset \in [FrameAddresses -> SuspendedOffsets]
  /\ uwException \in {"Throwable", "NullPointerException"}
  /\ uwThreadFrame \in {0, 1}
  /\ uwEntryFrame = 0
  /\ uwFrame = 0
  /\ uwPc = "idle"
  /\ uwJump = NoJump

\* unwind is entered (from throwNew, throw_, compileMethod ...): line 259,
\* frame = t->frame
UnwindEnter ==
  /\ uwPc = "idle"
  /\ uwPc' = "loop"
  /\ uwEntryFrame' = uwThreadFrame
  /\ uwFrame' = uwThreadFrame
  /\ UNCHANGED <<uwNext, uwMethod, uwOffset, uwException, uwThreadFrame,
                 uwJump>>

\* The test of lines 261-262
AtBoundary(frame) ==
  IF FrameValid(FrameNextOf(frame))
    THEN MethodNative(FrameMethodOf(FrameNextOf(frame)))
    ELSE TRUE

\* The test of line 266 followed by lines 267-268
Handles(frame) ==
  IF MethodNative(FrameMethodOf(frame)) THEN FALSE
  ELSE FrameHandler(frame) # 0

\* The test for a handler put in the place of the test of lines 261-262.
StopsWithHandler(frame) == Handles(frame)

\* Lines 261-265 come first: the handler is consulted only behind them.
StopsAtBoundary(frame) == AtBoundary(frame)

\* One turn of the loop, lines 259-273, with frame valid
UnwindTurn ==
  /\ uwPc = "loop"
  /\ FrameValid(uwFrame)
  /\ IF StopsAtBoundary(uwFrame)
       THEN /\ uwThreadFrame' = FrameNextOf(uwFrame)
            /\ uwJump' = [to |-> "address", method |-> "none",
                          at |-> FrameReturnAddress(uwFrame)]
            /\ uwPc' = "jumped"
            /\ UNCHANGED uwFrame
       ELSE IF Handles(uwFrame)
         THEN /\ uwThreadFrame' = uwFrame
              /\ uwJump' =
                   [to |-> "handler", method |-> FrameMethodOf(uwFrame),
                    at |-> MethodHandlerTable(FrameMethodOf(uwFrame))
                             [FrameHandler(uwFrame)].ip]
              /\ uwPc' = "jumped"
              /\ UNCHANGED uwFrame
         ELSE /\ uwFrame' = FrameNextOf(uwFrame)
              /\ UNCHANGED <<uwThreadFrame, uwJump, uwPc>>
  /\ UNCHANGED <<uwNext, uwMethod, uwOffset, uwException, uwEntryFrame>>

\* The loop ends on an invalid frame: abort(t), line 275
UnwindAbort ==
  /\ uwPc = "loop"
  /\ ~FrameValid(uwFrame)
  /\ uwPc' = "aborted"
  /\ UNCHANGED <<uwNext, uwMethod, uwOffset, uwException, uwThreadFrame,
                 uwEntryFrame, uwFrame, uwJump>>

NextUnwind ==
  \/ UnwindEnter
  \/ UnwindTurn
  \/ UnwindAbort

\* The frame at which the chain from `frame` first satisfies case (1) or
\* case (2), looking at no more than `fuel` frames; 0 when there is none.
RECURSIVE FirstStop(_, _)
FirstStop(frame, fuel) ==
  IF ~FrameValid(frame) \/ fuel = 0 THEN 0
  ELSE IF AtBoundary(frame) \/ Handles(frame) THEN frame
  ELSE FirstStop(FrameNextOf(frame), fuel - 1)

\* The chain from `frame` runs into the invalid frame with neither case
\* applying on the way.
RECURSIVE Exhausted(_, _)
Exhausted(frame, fuel) ==
  IF ~FrameValid(frame) THEN TRUE
  ELSE IF fuel = 0 \/ AtBoundary(frame) \/ Handles(frame) THEN FALSE
  ELSE Exhausted(FrameNextOf(frame), fuel - 1)

HandlerJump(frame) ==
  [to |-> "handler", method |-> FrameMethodOf(frame),
   at |-> MethodHandlerTable(FrameMethodOf(frame))[FrameHandler(frame)].ip]

(***************************************************************************)
(* C8: unwind stops at the first frame f of the chain from thread.frame    *)
(* where (1) the previous frame of f is invalid or of a native method, or  *)
(* (2) the method of f is not native and has a handler for f.  In case (1) *)
(* thread.frame becomes the previous frame and control goes to the return  *)
(* address of f; otherwise thread.frame becomes f and control goes to the  *)
(* handler's ip in the code of f's method.  unwind aborts only when the    *)
(* chain is exhausted with neither case applying, and has no other way     *)
(* out.                                                                    *)
(***************************************************************************)
UnwindStopsAtFirst ==
  /\ uwPc \in {"idle", "loop", "jumped", "aborted"}
  /\ uwPc = "aborted" => Exhausted(uwEntryFrame, NumFrames + 1)
  /\ uwPc = "jumped" =>
       LET f == FirstStop(uwEntryFrame, NumFrames + 1)
       IN /\ f # 0
          /\ uwFrame = f
          /\ IF AtBoundary(f)
               THEN /\ uwThreadFrame = FrameNextOf(f)
                    /\ uwJump = [to |-> "address", method |-> "none",
                                 at |-> FrameReturnAddress(f)]
               ELSE /\ uwThreadFrame = f
                    /\ uwJump = HandlerJump(f)

\* unwind went past the first frame and stopped at the second one, whose
\* handler it jumped to.
UnwindStopsAtFirstWitness ==
  /\ uwPc = "jumped"
  /\ uwEntryFrame = 1
  /\ uwFrame = 2
  /\ uwJump.to = "handler"
  /\ uwThreadFrame = 2

\* The frames from `frame` up to the boundary: the frame whose previous frame
\* is invalid or native is the last one.
RECURSIVE NearestHandling(_, _)
NearestHandling(frame, fuel) ==
  IF ~FrameValid(frame) \/ fuel = 0 THEN 0
  ELSE IF Handles(frame) THEN frame
  ELSE IF AtBoundary(frame) THEN 0
  ELSE NearestHandling(FrameNextOf(frame), fuel - 1)

(***************************************************************************)
(* C10: when a compiled frame between the throwing frame and the nearest   *)
(* boundary (the boundary frame itself included) has a handler that covers *)
(* its suspended pc and catches the exception, unwind delivers the         *)
(* exception to the nearest such frame; it bails out through the boundary  *)
(* only when there is no such frame.                                       *)
(***************************************************************************)
DeliversToNearestHandler ==
  uwPc = "jumped" =>
    LET h == NearestHandling(uwEntryFrame, NumFrames + 1)
    IN IF h # 0
         THEN uwThreadFrame = h /\ uwJump = HandlerJump(h)
         ELSE uwJump.to = "address"

(***************************************************************************)
(* The frames on the machine stack.  Addresses count words.  The stack     *)
(* takes the addresses StackLow..StackHigh and grows downwards; the thread,*)
(* the methods and the code lie above it, and nothing is mapped below it.  *)
(***************************************************************************)
LocalWords == 4
MaxFrameDepth == 2
MaxEntries == 3
MaxStores == 2

\* push rsp/pool/thread, the return address and the saved rbp
LinkageWords == FrameFootprint \div BytesPerWord + 2

StackWords == MaxFrameDepth * (LinkageWords + LocalWords)
StackLow == LocalWords + 1
StackHigh == StackLow + StackWords - 1
StackAddresses == StackLow..StackHigh

ThreadPointer == StackHigh + 2
MethodPointer == StackHigh + 3
NativeMethodPointer == StackHigh + 4
ReturnAddressWord == StackHigh + 5

\* The ints a method stores in its locals: 0, and numbers equal to the
\* address of its frame and to the address of its second local.
DataValues(frame) == {0, frame, frame - 2}

\* `values` pushed one after the other from stack pointer p
PushWords(st, p, values) ==
  [a \in StackAddresses |->
     IF a < p /\ a >= p - Len(values) THEN values[p - a] ELSE st[a]]

FramesIdle ==
  /\ stack = [a \in StackAddresses |-> 0]
  /\ stackPointer = StackHigh + 1
  /\ basePointer = 0
  /\ frThreadFrame = 0
  /\ activations = <<>>
  /\ entries = 0

TopKind ==
  IF activations = <<>> THEN "host"
  ELSE activations[Len(activations)].kind

Activation(kind) ==
  [kind |-> kind, frame |-> frThreadFrame, sp |-> stackPointer, stores |-> 0]

\* The code of a compiled method is entered: the caller has pushed `linkage`
\* and calls; the prologue (lines 1122-1128) pushes rbp, sets rbp and
\* reserves the locals.
EnterCompiled(kind, linkage) ==
  /\ Len(activations) < MaxFrameDepth
  /\ entries < MaxEntries
  /\ entries' = entries + 1
  /\ stack' = PushWords(stack, stackPointer,
                        linkage \o <<ReturnAddressWord, basePointer>>)
  /\ basePointer' = stackPointer - Len(linkage) - 2
  /\ stackPointer' = stackPointer - Len(linkage) - 2 - LocalWords
  /\ activations' = Append(activations, Activation(kind))

\* invokeList (lines 2298-2310, 2456-2470): the argument list holds the
\* thread, the method and t->frame; vmInvoke copies it to the stack, the
\* first word lowest, and calls the method's code.
InvokeListEnter ==
  /\ TopKind \in {"host", "native"}
  /\ EnterCompiled("bridge", <<frThreadFrame, MethodPointer, ThreadPointer>>)
  /\ UNCHANGED frThreadFrame

\* invokeArray (lines 2367-2378): the argument list holds 0 and the method.
InvokeArrayEnter ==
  /\ TopKind \in {"host", "native"}
  /\ EnterCompiled("bridge", <<MethodPointer, 0>>)
  /\ UNCHANGED frThreadFrame

\* compileDirectInvoke, lines 991-1001, to a compiled method; when the
\* target is still the method stub, the stub (lines 2135-2140) stores its
\* frame pointer, which is the address the callee's frame gets, in t->frame.
DirectInvoke(viaStub) ==
  /\ TopKind \in {"bridge", "compiled"}
  /\ EnterCompiled("compiled", <<stackPointer, MethodPointer, ThreadPointer>>)
  /\ frThreadFrame' = IF viaStub THEN stackPointer - LinkageWords
                      ELSE frThreadFrame

\* A call of a native method: its code is the native invoker (lines
\* 2106-2131), which pushes rbp, sets rbp and stores it in t->frame.
NativeInvoke ==
  /\ TopKind \in {"bridge", "compiled"}
  /\ Len(activations) < MaxFrameDepth
  /\ entries < MaxEntries
  /\ entries' = entries + 1
  /\ stack' = PushWords(stack, stackPointer,
                        <<stackPointer, NativeMethodPointer, ThreadPointer,
                          ReturnAddressWord, basePointer>>)
  /\ basePointer' = stackPointer - LinkageWords
  /\ stackPointer' = stackPointer - LinkageWords
  /\ frThreadFrame' = stackPointer - LinkageWords
  /\ activations' = Append(activations, Activation("native"))

\* The method stores an int in one of its locals (istore).
StoreLocal ==
  /\ TopKind \in {"bridge", "compiled"}
  /\ activations[Len(activations)].stores < MaxStores
  /\ \E i \in 1..LocalWords, v \in DataValues(basePointer) :
       /\ stack[basePointer - i] # v
       /\ stack' = [stack EXCEPT ![basePointer - i] = v]
  /\ activations' = [activations EXCEPT ![Len(activations)].stores = @ + 1]
  /\ UNCHANGED <<stackPointer, basePointer, frThreadFrame, entries>>

\* The method calls a helper of the runtime: compileCall (lines 1060-1061)
\* stores rbp in t->frame before the call.
CallHelper ==
  /\ TopKind \in {"bridge", "compiled"}
  /\ frThreadFrame # basePointer
  /\ frThreadFrame' = basePointer
  /\ UNCHANGED <<stack, stackPointer, basePointer, activations, entries>>

\* return_ (lines 2030-2034) or the end of the native invoker: rsp = rbp,
\* pop rbp, ret; the caller drops what it pushed (line 1003); invoke
\* restores t->frame (line 2475).
Return ==
  /\ activations # <<>>
  /\ LET top == activations[Len(activations)]
     IN /\ basePointer' = stack[basePointer]
        /\ stackPointer' = top.sp
        /\ frThreadFrame' = IF top.kind = "bridge" THEN top.frame
                            ELSE frThreadFrame
  /\ activations' = SubSeq(activations, 1, Len(activations) - 1)
  /\ UNCHANGED <<stack, entries>>

NextFrames ==
  \/ InvokeListEnter
  \/ InvokeArrayEnter
  \/ \E viaStub \in BOOLEAN : DirectInvoke(viaStub)
  \/ NativeInvoke
  \/ StoreLocal
  \/ CallHelper
  \/ Return

Mapped(a) == a \in StackAddresses

\* What following frameNext (lines 188-198) from `frame` leads to:
\* frameBase(frame) is the word at frame[-(FrameFootprint / BytesPerWord) - 1]
\* and frameNext the word at slot FrameNext / BytesPerWord = 1 of it.
RECURSIVE ChainOutcome(_, _)
ChainOutcome(frame, fuel) ==
  IF frame = 0 THEN "ends"
  ELSE IF fuel = 0 THEN "cycles"
  ELSE IF ~Mapped(frame - (FrameFootprint \div BytesPerWord) - 1) THEN "wild"
  ELSE LET base == stack[frame - (FrameFootprint \div BytesPerWord) - 1]
       IN IF ~Mapped(base + 1) THEN "wild"
          ELSE ChainOutcome(stack[base + 1], fuel - 1)

(***************************************************************************)
(* C7: in every state reached through bridge entries, calls, stub and      *)
(* native invoker entries and returns, following frameNext from            *)
(* thread.frame reaches the invalid frame after finitely many steps.       *)
(***************************************************************************)
FrameChainEnds ==
  ChainOutcome(frThreadFrame, StackWords + 1) = "ends"

\* The same, weaker: the chain from thread.frame does not run in a cycle
\* inside the stack.
FrameChainFinite ==
  ChainOutcome(frThreadFrame, StackWords + 1) # "cycles"

(***************************************************************************)
(* MyProcessor::methodStub and MyProcessor::nativeInvoker.  Both test the  *)
(* cached field, emit the routine when the field is 0, store the result    *)
(* and return the field.  Neither takes a lock; compileMethod2 calls       *)
(* methodStub once before and once after acquiring classLock.  Each access *)
(* of the field is one step of the calling thread.                         *)
(***************************************************************************)
MaxStubCalls == 2

Routines == {"methodStub", "nativeInvoker"}

\* The cached field a routine reads and writes.
ProcessorField(r) == IF r = "methodStub" THEN methodStub_ ELSE nativeInvoker_

StubIdle ==
  /\ methodStub_ = 0
  /\ nativeInvoker_ = 0
  /\ stPc = [t \in Threads |-> "idle"]
  /\ stRoutine = [t \in Threads |-> "methodStub"]
  /\ stLocal = [t \in Threads |-> 0]
  /\ stCalls = [t \in Threads |-> 0]
  /\ stEmitted = [r \in Routines |-> 0]
  /\ stReturned = [r \in Routines |-> {}]

\* A thread enters methodStub(t) or nativeInvoker(t).
ProcessorCall(t, r) ==
  /\ stPc[t] = "idle"
  /\ stCalls[t] < MaxStubCalls
  /\ stPc' = [stPc EXCEPT ![t] = "test"]
  /\ stRoutine' = [stRoutine EXCEPT ![t] = r]
  /\ stCalls' = [stCalls EXCEPT ![t] = @ + 1]
  /\ UNCHANGED <<methodStub_, nativeInvoker_, stLocal, stEmitted, stReturned>>

\* if (methodStub_ == 0)
ProcessorTest(t) ==
  /\ stPc[t] = "test"
  /\ stPc' = [stPc EXCEPT ![t] =
                IF ProcessorField(stRoutine[t]) = 0 THEN "emit" ELSE "return"]
  /\ UNCHANGED <<methodStub_, nativeInvoker_, stRoutine, stLocal, stCalls,
                 stEmitted, stReturned>>

\* Compiler c(t); c.compileStub(): finish() allocates a new Code block.
\* Blocks of one routine are numbered in the order they are allocated.
ProcessorEmit(t) ==
  /\ stPc[t] = "emit"
  /\ stEmitted' = [stEmitted EXCEPT ![stRoutine[t]] = @ + 1]
  /\ stLocal' = [stLocal EXCEPT ![t] = stEmitted[stRoutine[t]] + 1]
  /\ stPc' = [stPc EXCEPT ![t] = "store"]
  /\ UNCHANGED <<methodStub_, nativeInvoker_, stRoutine, stCalls, stReturned>>

\* methodStub_ = <the block>
ProcessorStore(t) ==
  /\ stPc[t] = "store"
  /\ IF stRoutine[t] = "methodStub"
       THEN methodStub_' = stLocal[t] /\ UNCHANGED nativeInvoker_
       ELSE nativeInvoker_' = stLocal[t] /\ UNCHANGED methodStub_
  /\ stPc' = [stPc EXCEPT ![t] = "return"]
  /\ UNCHANGED <<stRoutine, stLocal, stCalls, stEmitted, stReturned>>

\* return methodStub_;
ProcessorReturn(t) ==
  /\ stPc[t] = "return"
  /\ stReturned' = [stReturned EXCEPT ![stRoutine[t]] =
                      @ \cup {ProcessorField(stRoutine[t])}]
  /\ stPc' = [stPc EXCEPT ![t] = "idle"]
  /\ UNCHANGED <<methodStub_, nativeInvoker_, stRoutine, stLocal, stCalls,
                 stEmitted>>

NextStub ==
  \E t \in Threads :
    \/ \E r \in Routines : ProcessorCall(t, r)
    \/ ProcessorTest(t)
    \/ ProcessorEmit(t)
    \/ ProcessorStore(t)
    \/ ProcessorReturn(t)

\* C11: methodStub and nativeInvoker are idempotent under any interleaving:
\* each routine is emitted at most once and all calls of a routine return
\* the same pointer.
StubIdempotent ==
  \A r \in Routines :
    /\ stEmitted[r] <= 1
    /\ Cardinality(stReturned[r]) <= 1

(***************************************************************************)
(* MyProcessor::parameterFootprint.  A spec string is a sequence of        *)
(* characters; reading past its last character gives the terminating NUL,  *)
(* written "" here.  The scan is the loop of the function, character by    *)
(* character.  The inputs are well-formed method descriptors, written out  *)
(* from a list of parameter types.                                         *)
(***************************************************************************)
MaxParams == 2
MaxDims == 2

\* Element types: int-like primitives, the two wide primitives, a class.
ElementTypes == {"I", "Z", "J", "D", "L"}

\* A class name that holds the letters the scan gives a meaning to.
ClassName == <<"J", "/", "D", "L">>

ParameterTypes == [dims : 0..MaxDims, elem : ElementTypes]

RECURSIVE Brackets(_)
Brackets(n) == IF n = 0 THEN <<>> ELSE <<"[">> \o Brackets(n - 1)

\* The descriptor of one parameter type.
TypeChars(p) ==
  Brackets(p.dims) \o
    (IF p.elem = "L" THEN <<"L">> \o ClassName \o <<";">> ELSE <<p.elem>>)

RECURSIVE ParamChars(_)
ParamChars(ps) ==
  IF ps = <<>> THEN <<>> ELSE TypeChars(Head(ps)) \o ParamChars(Tail(ps))

\* The method spec: '(' parameters ')' return type.
SpecChars(ps) == <<"(">> \o ParamChars(ps) \o <<")", "V">>

\* *s
CharAt(s, i) == IF i <= Len(s) THEN s[i] ELSE ""

\* while (*s and *s != ';') ++ s;  ++ s;
RECURSIVE SkipClass(_, _)
SkipClass(s, i) ==
  IF CharAt(s, i) # "" /\ CharAt(s, i) # ";" THEN SkipClass(s, i + 1) ELSE i + 1

\* while (*s == '[') ++ s;
RECURSIVE SkipBrackets(_, _)
SkipBrackets(s, i) == IF CharAt(s, i) = "[" THEN SkipBrackets(s, i + 1) ELSE i

\* The word-size test of case 'J' / 'D' taken the other way round.
LongExtraOn64 == IF BytesPerWord = 8 THEN 1 ELSE 0

\* case 'J': case 'D': one more word when BytesPerWord == 4.

LongExtra == IF BytesPerWord = 4 THEN 1 ELSE 0

\* The loop of parameterFootprint from position i with the footprint so far.
RECURSIVE ScanSpec(_, _, _)
ScanSpec(s, i, footprint) ==
  IF CharAt(s, i) # "" /\ CharAt(s, i) # ")"
    THEN CASE CharAt(s, i) = "L" ->
                ScanSpec(s, SkipClass(s, i), footprint + 1)
           [] CharAt(s, i) = "[" ->
                LET j == SkipBrackets(s, i)
                IN  IF CharAt(s, j) = "L"
                      THEN ScanSpec(s, SkipClass(s, j), footprint + 1)
                      ELSE ScanSpec(s, j + 1, footprint + 1)
           [] CharAt(s, i) \in {"J", "D"} ->
                ScanSpec(s, i + 1, footprint + LongExtra + 1)
           [] OTHER ->
                ScanSpec(s, i + 1, footprint + 1)
    ELSE [footprint |-> footprint, stop |-> i]

\* parameterFootprint(t, s, static_): skip '(', scan, add the receiver.
ParameterFootprint(s, static) ==
  LET r == ScanSpec(s, 2, 0)
  IN  [footprint |-> IF static THEN r.footprint ELSE r.footprint + 1,
       stop |-> r.stop]

RECURSIVE ParamLists(_)
ParamLists(n) ==
  IF n = 0 THEN {<<>>}
  ELSE ParamLists(n - 1) \cup
         {<<p>> \o ps : p \in ParameterTypes,
                        ps \in {q \in ParamLists(n - 1) : Len(q) = n - 1}}

FootprintIdle ==
  /\ fpParams = <<>>
  /\ fpStatic = FALSE
  /\ fpCalled = FALSE
  /\ fpResult = 0
  /\ fpStop = 0

\* The arguments of one call.
InitFootprint ==
  /\ fpParams \in ParamLists(MaxParams)
  /\ fpStatic \in BOOLEAN
  /\ fpCalled = FALSE
  /\ fpResult = 0
  /\ fpStop = 0

CallParameterFootprint ==
  /\ ~fpCalled
  /\ fpCalled' = TRUE
  /\ fpResult' = ParameterFootprint(SpecChars(fpParams), fpStatic).footprint
  /\ fpStop' = ParameterFootprint(SpecChars(fpParams), fpStatic).stop
  /\ UNCHANGED <<fpParams, fpStatic>>

NextFootprint == CallParameterFootprint

\* The words the specification gives to one parameter type.
TypeWords(p) ==
  IF p.dims = 0 /\ p.elem \in {"J", "D"}
    THEN (IF BytesPerWord = 4 THEN 2 ELSE 1)
    ELSE 1

RECURSIVE SumWords(_)
SumWords(ps) == IF ps = <<>> THEN 0 ELSE TypeWords(Head(ps)) + SumWords(Tail(ps))

\* C12: for every well-formed spec parameterFootprint returns the sum of the
\* words of the parameters (1 for int-like, object and array types, 2 or 1
\* for J and D by word size) plus 1 when not static, and stops at ')'.
FootprintIsSum ==
  fpCalled =>
    /\ fpResult = SumWords(fpParams) + (IF fpStatic THEN 0 ELSE 1)
    /\ CharAt(SpecChars(fpParams), fpStop) = ")"

\* C12 witness: a non-static spec with a wide primitive and an array of a
\* wide primitive on a 32-bit build.
FootprintIsSumWitness ==
  /\ fpCalled
  /\ ~fpStatic
  /\ BytesPerWord = 4
  /\ Len(fpParams) = 2
  /\ fpParams[1] = [dims |-> 0, elem |-> "J"]
  /\ fpParams[2] = [dims |-> 2, elem |-> "D"]
  /\ fpResult = 4

(***************************************************************************)
(* MyProcessor::initClass.  ACQUIRE holds classLock until the function     *)
(* returns; the lock is a monitor its owner may enter again (the compiler  *)
(* calls initClass from inside compileMethod2, which holds it).  The class *)
(* initializer runs through invoke: it may call initClass again on the     *)
(* same thread, throw, or return.  An exception a handler inside the       *)
(* initializer caught is still in t->exception afterwards, since unwind    *)
(* does not clear it.  Every call site of initClass follows a test of      *)
(* t->exception, so initClass is entered with none pending.                *)
(***************************************************************************)
NumClasses == 2
MaxInitDepth == 2

InitClasses == 1..NumClasses

NeedInitFlag == "NeedInitFlag"
InitFlag == "InitFlag"

NoException == <<>>

\* makeNew(t, class_) of an exception class in throwNew.
Thrown == <<"Exception">>

\* makeExceptionInInitializerError(t, cause)
MakeExceptionInInitializerError(cause) ==
  <<"ExceptionInInitializerError">> \o cause

NoInitCall == [class |-> 0, ran |-> FALSE, left |-> NoException,
               pending |-> NoException, flags |-> {}]

InitIdle ==
  /\ icFlags = [c \in InitClasses |-> {NeedInitFlag}]
  /\ icLock = [owner |-> 0, depth |-> 0]
  /\ icStack = [t \in Threads |-> <<>>]
  /\ icException = [t \in Threads |-> NoException]
  /\ icRuns = [c \in InitClasses |-> 0]
  /\ icLast = [t \in Threads |-> NoInitCall]

\* The activation of initClass the thread is executing.
InitTop(t) == icStack[t][Len(icStack[t])]

InitAt(t, pc) ==
  IF icStack[t] = <<>> THEN FALSE ELSE InitTop(t).pc = pc

InitGoto(t, pc) ==
  [icStack EXCEPT ![t] = [@ EXCEPT ![Len(@)] = [@ EXCEPT !.pc = pc]]]

\* The test of lines 2598-2599 with the InitFlag part left out.
NeedsInitFlagOnly(flags) == NeedInitFlag \in flags

\* classVmFlags(t, c) & NeedInitFlag and (classVmFlags(t, c) & InitFlag) == 0
NeedsInit(flags) == NeedInitFlag \in flags /\ InitFlag \notin flags

\* t->exception after the initializer, left as the initializer left it.
PendingUnwrapped(e) == e

\* if (t->exception) t->exception = makeExceptionInInitializerError(...)
PendingAfterInitializer(e) ==
  IF e # NoException THEN MakeExceptionInInitializerError(e) ELSE e

\* initClass(t, c) is called: from code that is not inside an initializer,
\* or from inside the running initializer of the thread's current call.
InitClassEnter(t, c) ==
  /\ icException[t] = NoException
  /\ Len(icStack[t]) < MaxInitDepth
  /\ icStack[t] = <<>> \/ InitAt(t, "running")
  /\ icStack' = [icStack EXCEPT ![t] =
                   Append(@, [class |-> c, pc |-> "acquire", ran |-> FALSE,
                              left |-> NoException])]
  /\ UNCHANGED <<icFlags, icLock, icException, icRuns, icLast>>

\* ACQUIRE(t, t->m->classLock)
InitClassAcquire(t) ==
  /\ InitAt(t, "acquire")
  /\ icLock.owner \in {0, t}
  /\ icLock' = [owner |-> t, depth |-> icLock.depth + 1]
  /\ icStack' = InitGoto(t, "test")
  /\ UNCHANGED <<icFlags, icException, icRuns, icLast>>

\* if (NeedInitFlag and not InitFlag)
InitClassTest(t) ==
  /\ InitAt(t, "test")
  /\ icStack' = InitGoto(t, IF NeedsInit(icFlags[InitTop(t).class])
                              THEN "set" ELSE "release")
  /\ UNCHANGED <<icFlags, icLock, icException, icRuns, icLast>>

\* classVmFlags(t, c) |= InitFlag
InitClassSetFlag(t) ==
  /\ InitAt(t, "set")
  /\ icFlags' = [icFlags EXCEPT ![InitTop(t).class] = @ \cup {InitFlag}]
  /\ icStack' = InitGoto(t, "invoke")
  /\ UNCHANGED <<icLock, icException, icRuns, icLast>>

\* invoke(t, classInitializer(t, c), 0): the initializer starts to run.
InitClassInvoke(t) ==
  /\ InitAt(t, "invoke")
  /\ icRuns' = [icRuns EXCEPT ![InitTop(t).class] = @ + 1]
  /\ icStack' = [icStack EXCEPT ![t] =
                   [@ EXCEPT ![Len(@)] = [@ EXCEPT !.pc = "running",
                                                   !.ran = TRUE]]]
  /\ UNCHANGED <<icFlags, icLock, icException, icLast>>

\* Code called by the initializer throws and a handler in a frame above the
\* initializer's takes the exception: unwind jumps to the handler and leaves
\* t->exception as it is.
InitializerCatches(t) ==
  /\ InitAt(t, "running")
  /\ icException[t] = NoException
  /\ icException' = [icException EXCEPT ![t] = Thrown]
  /\ UNCHANGED <<icFlags, icLock, icStack, icRuns, icLast>>

\* The initializer throws and no handler takes the exception: unwind jumps
\* to the return address of the frame invoke entered, vmInvoke returns.
InitializerThrows(t) ==
  /\ InitAt(t, "running")
  /\ icException' = [icException EXCEPT ![t] = Thrown]
  /\ icStack' = [icStack EXCEPT ![t] =
                   [@ EXCEPT ![Len(@)] = [@ EXCEPT !.pc = "returned",
                                                   !.left = Thrown]]]
  /\ UNCHANGED <<icFlags, icLock, icRuns, icLast>>

\* The initializer returns, or unwinds with what a nested call left pending.
InitializerReturns(t) ==
  /\ InitAt(t, "running")
  /\ icStack' = [icStack EXCEPT ![t] =
                   [@ EXCEPT ![Len(@)] = [@ EXCEPT !.pc = "returned",
                                                   !.left = icException[t]]]]
  /\ UNCHANGED <<icFlags, icLock, icException, icRuns, icLast>>

\* if (t->exception) { t->exception = makeExceptionInInitializerError(...) }
InitClassWrap(t) ==
  /\ InitAt(t, "returned")
  /\ icException' = [icException EXCEPT ![t] = PendingAfterInitializer(@)]
  /\ icStack' = InitGoto(t, "clear")
  /\ UNCHANGED <<icFlags, icLock, icRuns, icLast>>

\* classVmFlags(t, c) &= ~(NeedInitFlag | InitFlag)
InitClassClear(t) ==
  /\ InitAt(t, "clear")
  /\ icFlags' = [icFlags EXCEPT ![InitTop(t).class] =
                   @ \ {NeedInitFlag, InitFlag}]
  /\ icStack' = InitGoto(t, "release")
  /\ UNCHANGED <<icLock, icException, icRuns, icLast>>

\* The end of initClass: the scope of ACQUIRE ends, the function returns.
InitClassReturn(t) ==
  /\ InitAt(t, "release")
  /\ icLock' = IF icLock.depth = 1 THEN [owner |-> 0, depth |-> 0]
               ELSE [icLock EXCEPT !.depth = @ - 1]
  /\ icLast' = [icLast EXCEPT ![t] =
                  [class |-> InitTop(t).class, ran |-> InitTop(t).ran,
                   left |-> InitTop(t).left, pending |-> icException[t],
                   flags |-> icFlags[InitTop(t).class]]]
  /\ icStack' = [icStack EXCEPT ![t] = SubSeq(@, 1, Len(@) - 1)]
  /\ UNCHANGED <<icFlags, icException, icRuns>>

NextInit ==
  \E t \in Threads :
    \/ \E c \in InitClasses : InitClassEnter(t, c)
    \/ InitClassAcquire(t)
    \/ InitClassTest(t)
    \/ InitClassSetFlag(t)
    \/ InitClassInvoke(t)
    \/ InitializerCatches(t)
    \/ InitializerThrows(t)
    \/ InitializerReturns(t)
    \/ InitClassWrap(t)
    \/ InitClassClear(t)
    \/ InitClassReturn(t)

\* C13: over any interleaving of initClass calls, nested ones included, the
\* initializer of a class is invoked at most once, and a thread is inside an
\* initializer only while it owns classLock.
InitializerOnce ==
  /\ \A c \in InitClasses : icRuns[c] <= 1
  /\ \A t \in Threads :
       \A i \in 1..Len(icStack[t]) :
         icStack[t][i].pc = "running" => icLock.owner = t

\* C13 witness: a thread called initClass on a class from inside that class's
\* own initializer and the call returned without running the initializer,
\* while the other thread waits to acquire the lock for the same class.
InitializerOnceWitness ==
  \E t \in Threads, u \in Threads, c \in InitClasses :
    /\ t # u
    /\ Len(icStack[t]) = 1
    /\ icStack[t][1].class = c
    /\ icStack[t][1].pc = "running"
    /\ icLast[t].class = c
    /\ ~icLast[t].ran
    /\ icRuns[c] = 1
    /\ InitAt(u, "acquire")
    /\ InitTop(u).class = c

\* C14: when a call of initClass that ran the initializer returns, both
\* flags of the class are clear, and the pending exception is an
\* ExceptionInInitializerError around the exception the initializer left,
\* wrapped once, or none when the initializer left none.
InitializerFailureWrapped ==
  \A t \in Threads :
    icLast[t].ran =>
      /\ icLast[t].flags = {}
      /\ icLast[t].pending =
           (IF icLast[t].left # NoException
              THEN <<"ExceptionInInitializerError">> \o icLast[t].left
              ELSE NoException)

\* C14 witness: one call returned after an initializer that threw, another
\* after an initializer that left nothing pending.
InitializerFailureWrappedWitness ==
  \E t \in Threads, u \in Threads :
    /\ icLast[t].ran
    /\ icLast[t].left = Thrown
    /\ icLast[t].pending = <<"ExceptionInInitializerError", "Exception">>
    /\ icLast[u].ran
    /\ icLast[u].left = NoException
    /\ icLast[u].pending = NoException

(***************************************************************************)
(* invokeNative and invokeNative2.  A native method's code field holds a   *)
(* byte array with the name until resolveNativeMethod found the host       *)
(* function, then a pointer object.  The host function returns a raw value *)
(* and may leave an exception pending.  For a pointer return type the raw  *)
(* value is the address of a slot that holds the object; address 0 holds   *)
(* nothing and reading through it is a fault of the process or yields any  *)
(* value.                                                                  *)
(***************************************************************************)
MaxNativeCalls == 3

POINTER_TYPE == "POINTER_TYPE"
INT32_TYPE == "INT32_TYPE"

\* The native methods: one returns an object, one an int.
NativeMethods == {"objectMethod", "intMethod"}

ReturnType(m) == IF m = "objectMethod" THEN POINTER_TYPE ELSE INT32_TYPE

\* methodCode before resolution: the byte array holding the name.
NameBytes == [class |-> "byteArray", value |-> "name"]

\* makePointer(t, function) for the function of method m.
MakePointer(m) == [class |-> "pointer", value |-> m]

\* Raw values a host function returns; 1 and 2 are addresses of slots.
HostValues == {0, 1, 2}

\* *reinterpret_cast<uintptr_t*>(result) for a slot address.
SlotObject(a) == a + 10

Objects == {SlotObject(a) : a \in HostValues \ {0}}

NoNativeCall ==
  [method |-> "none", resolve |-> "none", codeBefore |-> NameBytes,
   hostCalled |-> FALSE, raw |-> 0, hostThrew |-> FALSE, read |-> -1,
   value |-> 0, outcome |-> "none"]

NativeIdle ==
  /\ nvCode = [m \in NativeMethods |-> NameBytes]
  /\ nvException = "none"
  /\ nvPc = "idle"
  /\ nvCall = NoNativeCall
  /\ nvCalls = 0

\* The test of line 314 taken as true whatever the code field holds.
UnresolvedAlways(code) == TRUE

\* objectClass(t, methodCode(t, method)) == the byte array class
Unresolved(code) == code.class = "byteArray"

\* Compiled code calls invokeNative(t, method) through the native invoker.
InvokeNativeEnter(m) ==
  /\ nvPc = "idle"
  /\ nvCalls < MaxNativeCalls
  /\ nvCalls' = nvCalls + 1
  /\ nvCall' = [NoNativeCall EXCEPT !.method = m, !.codeBefore = nvCode[m]]
  /\ nvPc' = "resolve"
  /\ UNCHANGED <<nvCode, nvException>>

\* Lines 314-327: resolveNativeMethod returned 0.
ResolveFails ==
  /\ nvPc = "resolve"
  /\ Unresolved(nvCode[nvCall.method])
  /\ nvException' = "UnsatisfiedLinkError"
  /\ nvCall' = [nvCall EXCEPT !.resolve = "failed", !.value = 0]
  /\ nvPc' = "check"
  /\ UNCHANGED <<nvCode, nvCalls>>

\* Lines 314-327: resolveNativeMethod found the function.
ResolveSucceeds ==
  /\ nvPc = "resolve"
  /\ Unresolved(nvCode[nvCall.method])
  /\ nvCode' = [nvCode EXCEPT ![nvCall.method] = MakePointer(nvCall.method)]
  /\ nvCall' = [nvCall EXCEPT !.resolve = "resolved"]
  /\ nvPc' = "call"
  /\ UNCHANGED <<nvException, nvCalls>>

\* Line 314 is false: the code field holds a pointer already.
ResolveSkipped ==
  /\ nvPc = "resolve"
  /\ ~Unresolved(nvCode[nvCall.method])
  /\ nvPc' = "call"
  /\ UNCHANGED <<nvCode, nvException, nvCall, nvCalls>>

\* Lines 329-413: the arguments are gathered and system->call runs the host
\* function, which returns a raw value and may set t->exception.
CallHost ==
  /\ nvPc = "call"
  /\ \E raw \in HostValues, threw \in BOOLEAN :
       /\ nvCall' = [nvCall EXCEPT !.hostCalled = TRUE, !.raw = raw,
                                   !.hostThrew = threw]
       /\ nvException' = IF threw THEN "HostException" ELSE nvException
  /\ nvPc' = "result"
  /\ UNCHANGED <<nvCode, nvCalls>>

\* Lines 422-426: a pointer result is read through when no exception is
\* pending; reading through address 0 faults or yields any value.
NativeResult ==
  /\ nvPc = "result"
  /\ IF nvException = "none" /\ ReturnType(nvCall.method) = POINTER_TYPE
       THEN IF nvCall.raw = 0
              THEN \/ /\ nvCall' = [nvCall EXCEPT !.read = 0,
                                                  !.outcome = "fault"]
                      /\ nvPc' = "idle"
                   \/ /\ \E v \in Objects \cup {0} :
                           nvCall' = [nvCall EXCEPT !.read = 0, !.value = v]
                      /\ nvPc' = "check"
              ELSE /\ nvCall' = [nvCall EXCEPT !.read = nvCall.raw,
                                   !.value = SlotObject(nvCall.raw)]
                   /\ nvPc' = "check"
       ELSE /\ nvCall' = [nvCall EXCEPT !.value = nvCall.raw]
            /\ nvPc' = "check"
  /\ UNCHANGED <<nvCode, nvException, nvCalls>>

\* Lines 432-437 of invokeNative: unwind(t) when an exception is pending,
\* else return the result to the native invoker.
InvokeNativeCheck ==
  /\ nvPc = "check"
  /\ nvCall' = [nvCall EXCEPT !.outcome =
                  IF nvException # "none" THEN "unwound" ELSE "returned"]
  /\ nvPc' = "idle"
  /\ UNCHANGED <<nvCode, nvException, nvCalls>>

NextNative ==
  \/ \E m \in NativeMethods : InvokeNativeEnter(m)
  \/ ResolveFails
  \/ ResolveSucceeds
  \/ ResolveSkipped
  \/ CallHost
  \/ NativeResult
  \/ InvokeNativeCheck

\* The call recorded in nvCall has ended.
NativeCallEnded == nvPc = "idle" /\ nvCall.method # "none"

\* C15: on an unresolved method, a failed resolution leaves
\* UnsatisfiedLinkError pending, the host function uncalled and the code
\* field unchanged, and the call unwinds; a successful one stores a pointer
\* object in the code field, and a call that finds a pointer does not
\* resolve again.
NativeResolution ==
  /\ nvCall.resolve = "failed" =>
       /\ nvException = "UnsatisfiedLinkError"
       /\ ~nvCall.hostCalled
       /\ nvCode[nvCall.method] = nvCall.codeBefore
       /\ nvCall.codeBefore = NameBytes
       /\ NativeCallEnded => nvCall.outcome = "unwound"
  /\ nvCall.resolve = "resolved" =>
       /\ nvCall.codeBefore = NameBytes
       /\ nvCode[nvCall.method] = MakePointer(nvCall.method)
  /\ (nvCall.method # "none" /\ nvCall.codeBefore # NameBytes) =>
       nvCall.resolve = "none"

\* C15 witness: the resolution of one method failed (its code field still
\* holds the name and UnsatisfiedLinkError is pending), and a later call of
\* the other method found the pointer stored by an earlier call, did not
\* resolve and ran the host function.
NativeResolutionWitness ==
  /\ NativeCallEnded
  /\ nvCall.codeBefore = MakePointer(nvCall.method)
  /\ nvCall.resolve = "none"
  /\ nvCall.hostCalled
  /\ ~nvCall.hostThrew
  /\ nvException = "UnsatisfiedLinkError"
  /\ \E m \in NativeMethods : nvCode[m] = NameBytes

\* C16: after the host function returned, a pending exception makes the
\* call unwind; else a non-null result of pointer type is read through and
\* the object returned; else the raw value is returned and nothing is read.
NativeResultSafe ==
  (NativeCallEnded /\ nvCall.hostCalled) =>
    IF nvException # "none"
      THEN nvCall.outcome = "unwound" /\ nvCall.read = -1
      ELSE IF ReturnType(nvCall.method) = POINTER_TYPE /\ nvCall.raw # 0
        THEN /\ nvCall.outcome = "returned"
             /\ nvCall.value = SlotObject(nvCall.raw)
        ELSE /\ nvCall.outcome = "returned"
             /\ nvCall.value = nvCall.raw
             /\ nvCall.read = -1

(***************************************************************************)
(* The two constructors of ArgumentList, and the block invokeArray and     *)
(* invokeList allocate for them.  A slot is named after what it holds.     *)
(* addInt takes a uint32_t: an address given to it keeps its low 32 bits.  *)
(* addLong copies 8 bytes to array + position and adds 2 to position.      *)
(***************************************************************************)
ArgumentEntries == {"invokeArray", "invokeList", "invokeListByName"}

\* array[position] = v; ++ position  (addObject)
AddObject(array, v) == Append(array, v)

\* array[position] = v for a uint32_t v; ++ position  (addInt)
AddInt(array, v) == Append(array, v)

\* addInt of an address: the value the slot gets.
NarrowAddress(v) == IF argFit THEN v ELSE "low32 of " \o v

\* memcpy(array + position, &v, 8); position += 2  (addLong)
AddLong(array) ==
  IF BytesPerWord = 4
    THEN array \o <<"long word", "long word">>
    ELSE array \o <<"long", "unwritten">>

\* The loop over the spec in either constructor, from position i.
RECURSIVE AddArguments(_, _, _)
AddArguments(s, i, array) ==
  IF CharAt(s, i) # "" /\ CharAt(s, i) # ")"
    THEN CASE CharAt(s, i) = "L" ->
                AddArguments(s, SkipClass(s, i), AddObject(array, "object"))
           [] CharAt(s, i) = "[" ->
                LET j == SkipBrackets(s, i)
                IN  IF CharAt(s, j) = "L"
                      THEN AddArguments(s, SkipClass(s, j),
                                        AddObject(array, "object"))
                      ELSE AddArguments(s, j + 1, AddObject(array, "object"))
           [] CharAt(s, i) \in {"J", "D"} ->
                AddArguments(s, i + 1, AddLong(array))
           [] OTHER ->
                AddArguments(s, i + 1, AddInt(array, "int"))
    ELSE array

\* if (this_) addObject(this_)
AddThis(array) == IF argThis THEN AddObject(array, "this") ELSE array

\* ArgumentList(t, array, objectMask, this_, spec, indirectObjects, va_list)
ArgumentListOfList(s) ==
  AddArguments(s, 2,
    AddThis(AddInt(AddObject(AddInt(<<>>, NarrowAddress("thread")), "method"),
                   NarrowAddress("frame"))))

\* ArgumentList(t, array, objectMask, this_, spec, arguments)
ArgumentListOfArray(s) ==
  AddArguments(s, 2, AddThis(AddObject(AddInt(<<>>, "zero"), "method")))

\* objectMask beside the array: an element is written or not and has a value;
\* bool objectMask[size] (lines 2682, 2702, 2718) is not initialised, so an
\* element that was not written holds what the stack held.
Written(v) == [written |-> TRUE, value |-> v]
NotWritten == [written |-> FALSE, value |-> argStale]

\* objectMask[position] = true; ++ position  (addObject, lines 2430-2434)
MaskObject(mask) == Append(mask, Written(TRUE))

\* objectMask[position] = false; ++ position  (addInt, lines 2436-2440)
MaskInt(mask) == Append(mask, Written(FALSE))

\* addLong writing both elements.
MaskLongBoth(mask) == mask \o <<Written(FALSE), Written(FALSE)>>

\* objectMask[position] = false, twice; position += 2  (addLong, lines
\* 2442-2447)
MaskLong(mask) == mask \o <<Written(FALSE), NotWritten>>

\* The loop over the spec in either constructor, for the mask.
RECURSIVE MaskArguments(_, _, _)
MaskArguments(s, i, mask) ==
  IF CharAt(s, i) # "" /\ CharAt(s, i) # ")"
    THEN CASE CharAt(s, i) = "L" ->
                MaskArguments(s, SkipClass(s, i), MaskObject(mask))
           [] CharAt(s, i) = "[" ->
                LET j == SkipBrackets(s, i)
                IN  IF CharAt(s, j) = "L"
                      THEN MaskArguments(s, SkipClass(s, j), MaskObject(mask))
                      ELSE MaskArguments(s, j + 1, MaskObject(mask))
           [] CharAt(s, i) \in {"J", "D"} ->
                MaskArguments(s, i + 1, MaskLong(mask))
           [] OTHER ->
                MaskArguments(s, i + 1, MaskInt(mask))
    ELSE mask

MaskThis(mask) == IF argThis THEN MaskObject(mask) ELSE mask

\* The mask after the constructor for a va_list, and after the one for an
\* array of arguments.
ObjectMaskOfList(s) ==
  MaskArguments(s, 2, MaskThis(MaskInt(MaskObject(MaskInt(<<>>)))))

ObjectMaskOfArray(s) ==
  MaskArguments(s, 2, MaskThis(MaskObject(MaskInt(<<>>))))

\* methodParameterFootprint(t, method): the footprint of the method's spec;
\* the method is static exactly when this_ is null.
MethodParameterFootprint ==
  ParameterFootprint(SpecChars(argParams), ~argThis).footprint

\* unsigned size = ... + FrameFootprint; uintptr_t array[size];
BlockSize ==
  IF argEntry = "invokeListByName"
    THEN ParameterFootprint(SpecChars(argParams), FALSE).footprint
           + FrameFootprint
    ELSE MethodParameterFootprint + FrameFootprint

ArgumentsIdle ==
  /\ argParams = <<>>
  /\ argThis = FALSE
  /\ argEntry = "invokeArray"
  /\ argFit = TRUE
  /\ argCalled = FALSE
  /\ argArray = <<>>
  /\ argSize = 0
  /\ argStale = FALSE
  /\ argMask = <<>>

\* The arguments of one call of an entry point.
InitArguments ==
  /\ argParams \in ParamLists(MaxParams)
  /\ argThis \in BOOLEAN
  /\ argEntry \in ArgumentEntries
  /\ argFit \in (IF BytesPerWord = 4 THEN {TRUE} ELSE BOOLEAN)
  /\ argCalled = FALSE
  /\ argArray = <<>>
  /\ argSize = 0
  /\ argStale \in BOOLEAN
  /\ argMask = <<>>

\* invokeArray / invokeList up to the call of ::invoke.
ConstructArgumentList ==
  /\ ~argCalled
  /\ argCalled' = TRUE
  /\ argSize' = BlockSize
  /\ argArray' = IF argEntry = "invokeArray"
                   THEN ArgumentListOfArray(SpecChars(argParams))
                   ELSE ArgumentListOfList(SpecChars(argParams))
  /\ argMask' = IF argEntry = "invokeArray"
                  THEN ObjectMaskOfArray(SpecChars(argParams))
                  ELSE ObjectMaskOfList(SpecChars(argParams))
  /\ UNCHANGED <<argParams, argThis, argEntry, argFit, argStale>>

NextArguments == ConstructArgumentList

\* C17: after either constructor the first three slots are the thread, the
\* slot kept for the method and the previous t->frame, the receiver and the
\* arguments start at slot 3, the number of filled slots is the parameter
\* footprint plus 3, and it does not exceed the allocated block.
ArgumentLayout ==
  argCalled =>
    /\ Len(argArray) = MethodParameterFootprint + 3
    /\ Len(argArray) <= argSize
    /\ argArray[1] = "thread"
    /\ argArray[2] = "method"
    /\ argArray[3] = "frame"
    /\ argThis => argArray[4] = "this"

\* What holds of the varargs constructor on a 32-bit build.
ArgumentLayoutOfList32 ==
  (argCalled /\ argEntry # "invokeArray" /\ BytesPerWord = 4) =>
    /\ Len(argArray) = MethodParameterFootprint + 3
    /\ Len(argArray) <= argSize
    /\ argArray[1] = "thread"
    /\ argArray[2] = "method"
    /\ argArray[3] = "frame"
    /\ argThis => argArray[4] = "this"

\* The slots that hold object references.
ObjectSlots == {"method", "this", "object"}

HasLong ==
  \E k \in 1..Len(argParams) :
    argParams[k].dims = 0 /\ argParams[k].elem \in {"J", "D"}

(***************************************************************************)
(* C28: after either constructor every element of objectMask beside a      *)
(* filled slot, both slots of a long or double included, has been written, *)
(* and it is true exactly beside the slots that hold object references.    *)
(***************************************************************************)
ObjectMaskWritten ==
  argCalled =>
    /\ Len(argMask) = Len(argArray)
    /\ \A i \in 1..Len(argArray) :
         /\ argMask[i].written
         /\ argMask[i].value <=> argArray[i] \in ObjectSlots

\* It is so for the methods without long and double parameters, and beside
\* every slot but the second one of a long or double.
ObjectMaskWrittenButLong ==
  argCalled =>
    /\ Len(argMask) = Len(argArray)
    /\ ~HasLong => \A i \in 1..Len(argArray) :
                     /\ argMask[i].written
                     /\ argMask[i].value <=> argArray[i] \in ObjectSlots
    /\ \A i \in 1..Len(argArray) :
         ~argMask[i].written
           => /\ i > 1
              /\ argArray[i - 1] \in {"long", "long word"}
              /\ argMask[i - 1] = Written(FALSE)

(***************************************************************************)
(* compileMethod on a method whose instructions call resolution and class  *)
(* initialization helpers.  Compiler::compile returns at once when a       *)
(* helper left t->exception set (if (UNLIKELY(t->exception)) return;),     *)
(* without a value; compileMethod2 goes on to line 2250 in either case.    *)
(* What it stores into method.compiled after such a return is not a Code   *)
(* record the compiler finished: it is null or an indeterminate word.      *)
(***************************************************************************)
MaxBody == 2

\* Instructions that call helpers, and the helpers each one calls in order.
HelperInstructions == {"anewarray", "getstatic", "new_"}

Helpers(i) ==
  CASE i = "anewarray" -> <<"resolveClass">>
    [] i = "getstatic" -> <<"resolveField", "initClass">>
    [] i = "new_" -> <<"resolveClass", "initClass">>

RECURSIVE Bodies(_)
Bodies(n) ==
  IF n = 0 THEN {<<>>}
  ELSE Bodies(n - 1) \cup
         {Append(b, i) : b \in {c \in Bodies(n - 1) : Len(c) = n - 1},
                         i \in HelperInstructions}

\* Values of method.compiled other than the stub and finished records.
NullCode == -2
IndeterminateCode == -3

\* The bytecode record method.code holds before the method is compiled.
Bytecode == [class |-> "code", body |-> <<>>]

DiscardIdle ==
  /\ cxBody = <<>>
  /\ cxIp = 1
  /\ cxHelper = 0
  /\ cxPool = <<>>
  /\ cxException = "none"
  /\ cxPc = "idle"
  /\ cxLocal = NoValue
  /\ cxCompiled = MethodStub
  /\ cxCode = Bytecode
  /\ cxOutcome = "none"

\* The method the stub was entered for.
InitDiscard ==
  /\ cxBody \in Bodies(MaxBody)
  /\ cxIp = 1
  /\ cxHelper = 0
  /\ cxPool = <<>>
  /\ cxException = "none"
  /\ cxPc = "idle"
  /\ cxLocal = NoValue
  /\ cxCompiled = MethodStub
  /\ cxCode = Bytecode
  /\ cxOutcome = "none"

\* compileMethod -> compileMethod2, lines 2227-2232: the method points at
\* the stub, the lock is free, the re-check sees the stub again.
CompileMethodEnter ==
  /\ cxPc = "idle"
  /\ cxOutcome = "none"
  /\ cxCompiled = MethodStub
  /\ cxPc' = "compile"
  /\ UNCHANGED <<cxBody, cxIp, cxHelper, cxPool, cxException, cxLocal,
                 cxCompiled, cxCode, cxOutcome>>

\* A helper called for the current instruction returns with no exception.
HelperReturns ==
  /\ cxPc = "compile"
  /\ cxIp <= Len(cxBody)
  /\ cxHelper < Len(Helpers(cxBody[cxIp]))
  /\ cxHelper' = cxHelper + 1
  /\ UNCHANGED <<cxBody, cxIp, cxPool, cxException, cxPc, cxLocal,
                 cxCompiled, cxCode, cxOutcome>>

\* A helper leaves an exception pending: if (UNLIKELY(t->exception)) return;
HelperFails ==
  /\ cxPc = "compile"
  /\ cxIp <= Len(cxBody)
  /\ cxHelper < Len(Helpers(cxBody[cxIp]))
  /\ cxException' = Helpers(cxBody[cxIp])[cxHelper + 1]
  /\ \E code \in {NullCode, IndeterminateCode} : cxLocal' = code
  /\ cxPc' = "store"
  /\ UNCHANGED <<cxBody, cxIp, cxHelper, cxPool, cxCompiled, cxCode,
                 cxOutcome>>

\* The helpers of the instruction have returned: its code is emitted with a
\* poolReference to the class or the static table.
EmitInstruction ==
  /\ cxPc = "compile"
  /\ cxIp <= Len(cxBody)
  /\ cxHelper = Len(Helpers(cxBody[cxIp]))
  /\ cxPool' = Append(cxPool, cxIp)
  /\ cxIp' = cxIp + 1
  /\ cxHelper' = 0
  /\ UNCHANGED <<cxBody, cxException, cxPc, cxLocal, cxCompiled, cxCode,
                 cxOutcome>>

\* The loop is over: resolveJumps, buildExceptionHandlerTable, finish().
CompileFinish ==
  /\ cxPc = "compile"
  /\ cxIp > Len(cxBody)
  /\ cxLocal' = 1
  /\ cxPc' = "store"
  /\ UNCHANGED <<cxBody, cxIp, cxHelper, cxPool, cxException, cxCompiled,
                 cxCode, cxOutcome>>

\* Line 2250: set(t, methodCompiled(t, method), ...), whatever compile did.
StoreCompiled ==
  /\ cxPc = "store"
  /\ cxCompiled' = cxLocal
  /\ cxPc' = "pool"
  /\ UNCHANGED <<cxBody, cxIp, cxHelper, cxPool, cxException, cxLocal,
                 cxCode, cxOutcome>>

\* makePool(): an array of the pool buffer, 0 when the buffer is empty.
MakePool(pool) ==
  IF Len(pool) > 0 THEN [class |-> "array", body |-> pool]
  ELSE [class |-> "null", body |-> <<>>]

\* Lines 2252-2253: object pool = c.makePool(); set(methodCode, pool).
StorePool ==
  /\ cxPc = "pool"
  /\ cxCode' = MakePool(cxPool)
  /\ cxPc' = "check"
  /\ UNCHANGED <<cxBody, cxIp, cxHelper, cxPool, cxException, cxLocal,
                 cxCompiled, cxOutcome>>

\* compileMethod, lines 2289-2293: unwind when an exception is pending,
\* else updateCaller and return to the stub.
CompileMethodCheck ==
  /\ cxPc = "check"
  /\ cxOutcome' = IF cxException # "none" THEN "unwound" ELSE "returned"
  /\ cxPc' = "idle"
  /\ UNCHANGED <<cxBody, cxIp, cxHelper, cxPool, cxException, cxLocal,
                 cxCompiled, cxCode>>

NextDiscard ==
  \/ CompileMethodEnter
  \/ HelperReturns
  \/ HelperFails
  \/ EmitInstruction
  \/ CompileFinish
  \/ StoreCompiled
  \/ StorePool
  \/ CompileMethodCheck

\* C18: when the compile stopped on a pending exception, after compileMethod2
\* method.compiled is still the stub and method.code still the bytecode
\* record, and compileMethod unwinds.
PartialCompileDiscarded ==
  (cxException # "none" /\ cxPc \in {"check", "idle"}) =>
    /\ cxCompiled = MethodStub
    /\ cxCode = Bytecode
    /\ cxPc = "idle" => cxOutcome = "unwound"

\* What holds instead: compileMethod unwinds, with the method changed.
PartialCompileUnwinds ==
  (cxException # "none" /\ cxPc = "idle") =>
    /\ cxOutcome = "unwound"
    /\ cxCompiled \in {NullCode, IndeterminateCode}
    /\ cxCode # Bytecode

(***************************************************************************)
(* The pool array and the publication of compiled code.  compileMethod2    *)
(* stores the Compiled record at line 2250 and the pool array at line      *)
(* 2253; a thread that read method.compiled at line 2227 without the lock  *)
(* returns to the stub, which jumps to the code method.compiled points at. *)
(* That code loads its pool register from method.code.                     *)
(***************************************************************************)

\* C19: compiled code is reachable by a thread only when the pool array is
\* installed in the method's code field: a thread whose call returned with
\* a Compiled record finds the pool array there.
PoolInstalledWhenReachable ==
  \A t \in Threads :
    (cmObserved[t] # NoValue /\ cmObserved[t] # MethodStub)
      => methodCode = "pool"

\* What holds: the thread that compiled finds the pool installed when its
\* own call returns, and the pool stays installed.
PoolInstalledForCompiler ==
  \A t \in Threads :
    (cmObserved[t] # NoValue /\ cmLocalCode[t] # NoValue)
      => methodCode = "pool"

(***************************************************************************)
(* The code Compiler::compile emits for the array loads and stores, run    *)
(* in a method that invoke called: the bounds test, the element access or  *)
(* the call of throwNew, the return to vmInvoke (by ret, or by the jump of *)
(* unwind to the return address of the frame invoke entered), and the      *)
(* switch on the return code at the end of invoke.                         *)
(***************************************************************************)
MaxLength == 2

IntField == "IntField"
LongField == "LongField"
ObjectField == "ObjectField"
VoidField == "VoidField"

ReturnCodes == {IntField, LongField, ObjectField, VoidField}

\* Words vmInvoke can return: 0, the value the method returned (an int, or
\* the address 1 of a slot holding an object), and any other word.
ResultWords == {0, 1, 7}

NoReturn == [kind |-> "none", value |-> 0]

ArrayIdle ==
  /\ abLength = 0
  /\ abIndex = 0
  /\ abOp = "load"
  /\ abReturnCode = VoidField
  /\ abPc = "idle"
  /\ abAccessed = FALSE
  /\ abThrowNew = FALSE
  /\ abException = "none"
  /\ abResult = 0
  /\ abReturned = NoReturn

\* The array, the index and the method of one call of invoke.
InitArray ==
  /\ abLength \in 0..MaxLength
  /\ abIndex \in -1..MaxLength
  /\ abOp \in {"load", "store"}
  /\ abReturnCode \in ReturnCodes
  /\ abPc = "idle"
  /\ abAccessed = FALSE
  /\ abThrowNew = FALSE
  /\ abException = "none"
  /\ abResult = 0
  /\ abReturned = NoReturn

\* cmp(0, rcx); jl(outOfBounds); mov(rax, BytesPerWord, rdx);
\* cmp(rdx, rcx); jge(outOfBounds): signed comparisons of the index.
OutOfBounds(index, length) == index < 0 \/ index >= length

\* invoke calls vmInvoke; the method runs up to the array instruction.
InvokeArrayMethod ==
  /\ abPc = "idle"
  /\ abReturned = NoReturn
  /\ abPc' = "test"
  /\ UNCHANGED <<abLength, abIndex, abOp, abReturnCode, abAccessed,
                 abThrowNew, abException, abResult, abReturned>>

\* The index is in bounds: the element is read and pushed, or written; the
\* code jumps to `next`.
ArrayAccess ==
  /\ abPc = "test"
  /\ ~OutOfBounds(abIndex, abLength)
  /\ abAccessed' = TRUE
  /\ abPc' = "return"
  /\ UNCHANGED <<abLength, abIndex, abOp, abReturnCode, abThrowNew,
                 abException, abResult, abReturned>>

\* outOfBounds: compileCall(throwNew, ArrayIndexOutOfBoundsException);
\* throwNew sets t->exception and calls unwind.
ArrayThrowNew ==
  /\ abPc = "test"
  /\ OutOfBounds(abIndex, abLength)
  /\ abThrowNew' = TRUE
  /\ abException' = "ArrayIndexOutOfBoundsException"
  /\ abPc' = "unwind"
  /\ UNCHANGED <<abLength, abIndex, abOp, abReturnCode, abAccessed, abResult,
                 abReturned>>

\* The method returns a value of its return type to vmInvoke.
MethodReturns ==
  /\ abPc = "return"
  /\ abResult' = IF abReturnCode = VoidField THEN 0 ELSE 1
  /\ abPc' = "invoke"
  /\ UNCHANGED <<abLength, abIndex, abOp, abReturnCode, abAccessed,
                 abThrowNew, abException, abReturned>>

\* unwind, lines 261-265: no handler takes the exception; vmJump to the
\* return address of the frame invoke entered.  The result registers hold
\* whatever the jump left in them.
UnwindToInvoke ==
  /\ abPc = "unwind"
  /\ abResult' \in ResultWords
  /\ abPc' = "invoke"
  /\ UNCHANGED <<abLength, abIndex, abOp, abReturnCode, abAccessed,
                 abThrowNew, abException, abReturned>>

\* invoke, lines 2477-2507: the switch on returnCode.  No branch looks at
\* t->exception.  Address 1 holds object 11; reading through another
\* non-null word faults or yields any word.
InvokeResult ==
  /\ abPc = "invoke"
  /\ CASE abReturnCode = IntField ->
            abReturned' = [kind |-> "boxed int", value |-> abResult]
       [] abReturnCode = LongField ->
            abReturned' = [kind |-> "boxed long", value |-> abResult]
       [] abReturnCode = ObjectField ->
            IF abResult = 0 THEN abReturned' = [kind |-> "null", value |-> 0]
            ELSE IF abResult = 1
              THEN abReturned' = [kind |-> "object", value |-> 11]
              ELSE \/ abReturned' = [kind |-> "fault", value |-> 0]
                   \/ abReturned' = [kind |-> "object", value |-> abResult]
       [] abReturnCode = VoidField ->
            abReturned' = [kind |-> "null", value |-> 0]
  /\ abPc' = "idle"
  /\ UNCHANGED <<abLength, abIndex, abOp, abReturnCode, abAccessed,
                 abThrowNew, abException, abResult>>

NextArray ==
  \/ InvokeArrayMethod
  \/ ArrayAccess
  \/ ArrayThrowNew
  \/ MethodReturns
  \/ UnwindToInvoke
  \/ InvokeResult

\* C20: with an index that is negative or not less than the length, no
\* element is read or written, throwNew is called with
\* ArrayIndexOutOfBoundsException, and invoke returns with that exception
\* pending and a null result.
OutOfBoundsThrows ==
  (abReturned # NoReturn /\ (abIndex < 0 \/ abIndex >= abLength)) =>
    /\ ~abAccessed
    /\ abThrowNew
    /\ abException = "ArrayIndexOutOfBoundsException"
    /\ abReturned.kind = "null"

\* What holds: the access is skipped and the exception is left pending.
OutOfBoundsPending ==
  (abPc \in {"return", "unwind", "invoke"} \/ abReturned # NoReturn) =>
    IF abIndex < 0 \/ abIndex >= abLength
      THEN ~abAccessed /\ abThrowNew
           /\ abException = "ArrayIndexOutOfBoundsException"
      ELSE abAccessed /\ ~abThrowNew /\ abException = "none"

(***************************************************************************)
(* Buffer.  The block is a sequence of bytes as long as the allocation;    *)
(* a byte of a new block that was not written yet is Unwritten.  ensure    *)
(* allocates when position + space > capacity, copies `position` bytes     *)
(* and frees the old block; it does not assign capacity.                   *)
(***************************************************************************)
MaxAppends == 3

MinimumCapacities == {0, 1, 4}

Unwritten == -1

Max(a, b) == IF a > b THEN a ELSE b

\* The bytes of v in memory on the little-endian host, `width` of them.
RECURSIVE ValueBytes(_, _)
ValueBytes(v, width) ==
  IF width = 0 THEN <<>> ELSE <<v % 256>> \o ValueBytes(v \div 256, width - 1)

\* max(minimumCapacity, capacity * 2) without the position + space term.
NewCapacityDoubled(buf, space) == Max(buf.minimum, buf.capacity * 2)

\* max(position + space, max(minimumCapacity, capacity * 2))
NewCapacity(buf, space) ==
  Max(buf.position + space, Max(buf.minimum, buf.capacity * 2))

\* Buffer::ensure(space)
Ensure(buf, space) ==
  IF buf.position + space > buf.capacity
    THEN [buf EXCEPT !.data =
            [i \in 1..NewCapacity(buf, space) |->
               IF i <= buf.position /\ i <= Len(buf.data)
                 THEN buf.data[i] ELSE Unwritten]]
    ELSE buf

\* memcpy(data + position, &v, n); position += n, after ensure(n).  A byte
\* whose place is not in the block is written outside it.
RECURSIVE WriteBytes(_, _)
WriteBytes(buf, bytes) ==
  IF bytes = <<>> THEN buf
  ELSE WriteBytes(
         IF buf.position + 1 <= Len(buf.data)
           THEN [buf EXCEPT !.data[buf.position + 1] = Head(bytes),
                            !.position = @ + 1]
           ELSE [buf EXCEPT !.outside = TRUE, !.position = @ + 1],
         Tail(bytes))

\* append (1 byte), append2, append4: ensure, then write.
AppendValue(buf, v, width) ==
  WriteBytes(Ensure(buf, width), ValueBytes(v, width))

\* appendAddress: append4(v), and append4(v >> 32) when BytesPerWord is 8.
AppendAddress(buf, v) ==
  IF BytesPerWord = 8
    THEN AppendValue(AppendValue(buf, Low32(v), 4), High32(v), 4)
    ELSE AppendValue(buf, Low32(v), 4)

\* The appends: the operation, a value of its type, and its width.
AppendCalls ==
  {[op |-> "append", v |-> 171, width |-> 1],
   [op |-> "append2", v |-> 4660, width |-> 2],
   [op |-> "append4", v |-> 305419896, width |-> 4],
   [op |-> "appendAddress", v |-> 2018915346, width |-> BytesPerWord]}

BufferOf ==
  [data |-> bufData, position |-> bufPosition, capacity |-> bufCapacity,
   minimum |-> bufMinimum, outside |-> bufOutside]

BufferIdle ==
  /\ bufData = <<>>
  /\ bufPosition = 0
  /\ bufCapacity = 0
  /\ bufMinimum = 0
  /\ bufOutside = FALSE
  /\ bufExpected = <<>>
  /\ bufAppends = 0

\* Buffer(s, minimumCapacity)
InitBuffer ==
  /\ bufData = <<>>
  /\ bufPosition = 0
  /\ bufCapacity = 0
  /\ bufMinimum \in MinimumCapacities
  /\ bufOutside = FALSE
  /\ bufExpected = <<>>
  /\ bufAppends = 0

BufferAppend(c) ==
  /\ bufAppends < MaxAppends
  /\ bufAppends' = bufAppends + 1
  /\ LET after == IF c.op = "appendAddress"
                    THEN AppendAddress(BufferOf, c.v)
                    ELSE AppendValue(BufferOf, c.v, c.width)
     IN  /\ bufData' = after.data
         /\ bufPosition' = after.position
         /\ bufCapacity' = after.capacity
         /\ bufOutside' = after.outside
  /\ bufExpected' = bufExpected \o ValueBytes(c.v, c.width)
  /\ UNCHANGED bufMinimum

NextBuffer == \E c \in AppendCalls : BufferAppend(c)

\* C21: after any sequence of appends the buffer holds the little-endian
\* bytes of the appended values in order, each at the length the buffer had
\* before it, the length is the sum of the widths, and no byte was written
\* outside the allocated block.
BufferKeepsAppends ==
  /\ ~bufOutside
  /\ bufPosition = Len(bufExpected)
  /\ bufPosition <= Len(bufData)
  /\ \A i \in 1..bufPosition : bufData[i] = bufExpected[i]

\* C21 witness: a byte, an address and a 16-bit value were appended to a
\* buffer of minimum capacity 4, which was allocated again past it.
BufferKeepsAppendsWitness ==
  /\ bufMinimum = 4
  /\ bufAppends = 3
  /\ BytesPerWord = 8
  /\ bufPosition = 11
  /\ Len(bufData) = 11
  /\ bufData[1] = 171
  /\ bufData[2] = 18
  /\ bufData[10] = 52
  /\ bufData[11] = 18

(***************************************************************************)
(* The pool register, lines 2188-2212, in the code emitted by the loop of  *)
(* Compiler::compile (lines 1138-2043).  An instruction of the method is   *)
(* named by its index; the emitted code is a sequence of operations, each  *)
(* standing for the machine instructions that matter to rdi: "reload"      *)
(* (the two movs of poolReference), "read" (an operand [rdi + offset]),    *)
(* "clobber" (a call, or a mov into rdi before it), "jcc" and "jmp"        *)
(* (target: a code offset), "ret", and "plain" for everything else.        *)
(***************************************************************************)
MaxMethod == 3

Op(k, target, offset) == [k |-> k, target |-> target, offset |-> offset]

Unresolved4 == 0

Instructions(n) ==
  {[op |-> o, target |-> 0] :
     o \in {"iconst_0", "ldc", "invokestatic", "instanceof", "return_"}}
    \cup {[op |-> o, target |-> k] : o \in {"ifeq", "goto_"}, k \in 0..(n - 1)}

Methods ==
  UNION {[1..n -> Instructions(n)] : n \in 1..MaxMethod}

CompilerOf ==
  [code |-> prCode, pool |-> prPool, returned |-> prReturned,
   clobbered |-> prClobbered, jumps |-> prJumps]

\* poolReference returning the length the pool had before the append, plus
\* the word size.
PoolReferenceOfOldLength(c, o) ==
  [c EXCEPT !.code = IF c.clobbered
                       THEN Append(c.code, Op("reload", 0, 0)) ELSE @,
            !.clobbered = FALSE,
            !.pool = Append(c.pool, o),
            !.returned = Append(@, Len(c.pool) * BytesPerWord + BytesPerWord)]

\* poolReference(o), lines 2192-2200: the reload when the flag is set, then
\* pool.appendAddress(o); the result is pool.length() + BytesPerWord, taken
\* after the append.
PoolReference(c, o) ==
  LET pool == Append(c.pool, o)
  IN  [c EXCEPT !.code = IF c.clobbered
                           THEN Append(c.code, Op("reload", 0, 0)) ELSE @,
                !.clobbered = FALSE,
                !.pool = pool,
                !.returned = Append(@, Len(pool) * BytesPerWord + BytesPerWord)]

LastReturned(c) == c.returned[Len(c.returned)]

\* An operand [poolRegister() + poolReference(o)].
ReadPool(c, o) ==
  LET r == PoolReference(c, o)
  IN  [r EXCEPT !.code = Append(@, Op("read", 0, LastReturned(r)))]

\* callAddress and callAlignedAddress, lines 2202-2212.
CallAddress(c) ==
  [c EXCEPT !.code = Append(@, Op("clobber", 0, 0)), !.clobbered = TRUE]

\* jmp(javaIP) and the conditional jumps to a java IP, lines 804-832: the
\* displacement is appended as 0 and the jump is recorded in `jumps`.
JumpToJavaIp(c, k, javaIP) ==
  [c EXCEPT !.jumps = Append(@, [ip |-> javaIP, offset |-> Len(c.code)]),
            !.code = Append(@, Op(k, Unresolved4, 0))]

\* case instanceof, lines 1724-1755.  The labels are resolved to the offsets
\* of their marks.
InstanceofTemplate(c, o) ==
  LET base == Len(c.code)
      n == IF c.clobbered THEN 1 ELSE 0
      call == base + 5 + n
      zero == base + 8 + n
      next == base + 9 + n
      test == [c EXCEPT !.code = Append(@, Op("jcc", zero, 0))]
      read == ReadPool(test, o)
      compare == [read EXCEPT !.code =
                    @ \o <<Op("jcc", call, 0), Op("plain", 0, 0),
                           Op("jmp", next, 0)>>]
      called == CallAddress(compare)
  IN  [called EXCEPT !.code =
         @ \o <<Op("plain", 0, 0), Op("jmp", next, 0), Op("plain", 0, 0)>>]

\* The switch of lines 1157-2042 for the instructions of the model.
CompileOne(c, instruction, o) ==
  CASE instruction.op = "iconst_0" ->
         [c EXCEPT !.code = Append(@, Op("plain", 0, 0))]
    [] instruction.op = "return_" ->
         [c EXCEPT !.code = Append(@, Op("ret", 0, 0))]
    [] instruction.op = "ldc" -> ReadPool(c, o)
    [] instruction.op = "invokestatic" -> CallAddress(ReadPool(c, o))
    [] instruction.op = "instanceof" -> InstanceofTemplate(c, o)
    [] instruction.op = "ifeq" -> JumpToJavaIp(c, "jcc", instruction.target)
    [] instruction.op = "goto_" -> JumpToJavaIp(c, "jmp", instruction.target)

\* resolveJumps, lines 2070-2077.
RECURSIVE ResolveJumps(_, _, _)
ResolveJumps(emitted, jumps, starts) ==
  IF jumps = <<>> THEN emitted
  ELSE ResolveJumps(
         [emitted EXCEPT ![Head(jumps).offset + 1].target =
                        starts[Head(jumps).ip + 1]],
         Tail(jumps), starts)

PoolIdle ==
  /\ prBody = <<>>
  /\ prIp = 0
  /\ prCode = <<>>
  /\ prPool = <<>>
  /\ prReturned = <<>>
  /\ prClobbered = TRUE
  /\ prMachineIPs = <<>>
  /\ prJumps = <<>>
  /\ prPc = "done"
  /\ prAt = 0
  /\ prRegister = "other"

\* Compiler(t), line 957: the flag starts set.
InitPool ==
  /\ prBody \in Methods
  /\ prIp = 0
  /\ prCode = <<>>
  /\ prPool = <<>>
  /\ prReturned = <<>>
  /\ prClobbered = TRUE
  /\ prMachineIPs = <<>>
  /\ prJumps = <<>>
  /\ prPc = "compile"
  /\ prAt = 0
  /\ prRegister = "other"

\* One turn of the loop of line 1138: the instruction's start is recorded,
\* then its template is emitted.  The object it refers to is named by the
\* instruction's index.
CompileInstruction ==
  /\ prPc = "compile"
  /\ prIp < Len(prBody)
  /\ LET c == CompileOne(CompilerOf, prBody[prIp + 1], prIp + 1)
     IN  /\ prCode' = c.code
         /\ prPool' = c.pool
         /\ prReturned' = c.returned
         /\ prClobbered' = c.clobbered
         /\ prJumps' = c.jumps
  /\ prMachineIPs' = Append(prMachineIPs, Len(prCode))
  /\ prIp' = prIp + 1
  /\ UNCHANGED <<prBody, prPc, prAt, prRegister>>

\* The end of the loop: resolveJumps (line 2045), and the method is entered
\* with rdi holding whatever the caller left in it.
CompileResolve ==
  /\ prPc = "compile"
  /\ prIp = Len(prBody)
  /\ prCode' = ResolveJumps(prCode, prJumps, prMachineIPs)
  /\ prPc' = "run"
  /\ prAt' = 0
  /\ prRegister' = "other"
  /\ UNCHANGED <<prBody, prIp, prPool, prReturned, prClobbered, prMachineIPs,
                 prJumps>>

\* The processor runs the operation at prAt.
RunOperation ==
  /\ prPc = "run"
  /\ prAt < Len(prCode)
  /\ LET op == prCode[prAt + 1]
     IN  /\ prRegister' = CASE op.k = "reload" -> "pool"
                            [] op.k = "clobber" -> "other"
                            [] OTHER -> prRegister
         /\ IF op.k = "ret"
              THEN prPc' = "done" /\ prAt' = prAt
              ELSE /\ prPc' = "run"
                   /\ prAt' \in CASE op.k = "jmp" -> {op.target}
                                  [] op.k = "jcc" -> {op.target, prAt + 1}
                                  [] OTHER -> {prAt + 1}
  /\ UNCHANGED <<prBody, prIp, prCode, prPool, prReturned, prClobbered,
                 prMachineIPs, prJumps>>

\* The code ran off its end.
RunEnd ==
  /\ prPc = "run"
  /\ prAt >= Len(prCode)
  /\ prPc' = "done"
  /\ UNCHANGED <<prBody, prIp, prCode, prPool, prReturned, prClobbered,
                 prMachineIPs, prJumps, prAt, prRegister>>

NextPool ==
  \/ CompileInstruction
  \/ CompileResolve
  \/ RunOperation
  \/ RunEnd

\* The operation about to run reads [rdi + offset].
ReadsPool ==
  /\ prPc = "run"
  /\ prAt < Len(prCode)
  /\ prCode[prAt + 1].k = "read"

\* The method has an instruction that jumps to another instruction.
HasBranch == \E i \in 1..Len(prBody) : prBody[i].op \in {"ifeq", "goto_"}

(***************************************************************************)
(* C23: whenever the emitted code is about to read [pool register +        *)
(* offset], on whatever path it came there, the pool register holds the    *)
(* method's pool array.                                                    *)
(***************************************************************************)
PoolRegisterHeld == ReadsPool => prRegister = "pool"

\* In a method without branches between instructions, the jumps inside the
\* instanceof template included, every read finds the pool in the register.
PoolRegisterHeldWithoutBranch == (ReadsPool /\ ~HasBranch) => prRegister = "pool"

\* buildExceptionHandlerTable, line 2102: the catch type stored for a handler
\* is the pool reference in words, less one; 0 stands for no catch type.
CatchTypeIndex(reference) == (reference \div BytesPerWord) - 1

\* findExceptionHandler, lines 239-243: arrayBody(pool, catchType - 1), the
\* elements of the array counted from 0.
HandlerCatchType(pool, catchType) == pool[(catchType - 1) + 1]

\* The body of an array starts after its class and length words.
ArrayBody == 2 * BytesPerWord

\* The word that [pool array + offset] reads.
PoolWordAt(pool, offset) == pool[((offset - ArrayBody) \div BytesPerWord) + 1]

(***************************************************************************)
(* C24 as stated: the k-th call of poolReference returns the length the    *)
(* pool had before the k-th append, plus the word size; the offsets        *)
(* increase by one word per call.                                          *)
(***************************************************************************)
PoolOffsetFromOldLength ==
  /\ Len(prReturned) = Len(prPool)
  /\ \A k \in 1..Len(prReturned) :
       /\ prReturned[k] = (k - 1) * BytesPerWord + BytesPerWord
       /\ k > 1 => prReturned[k] = prReturned[k - 1] + BytesPerWord

(***************************************************************************)
(* C24 amended: the k-th call of poolReference returns the length the pool *)
(* has after the k-th append, plus the word size; the offsets increase by  *)
(* one word per call, and the catch type index made from the k-th offset   *)
(* selects the k-th object appended.                                       *)
(***************************************************************************)
PoolOffsetFromNewLength ==
  /\ Len(prReturned) = Len(prPool)
  /\ \A k \in 1..Len(prReturned) :
       /\ prReturned[k] = k * BytesPerWord + BytesPerWord
       /\ k > 1 => prReturned[k] = prReturned[k - 1] + BytesPerWord
       /\ CatchTypeIndex(prReturned[k]) > 0
       /\ HandlerCatchType(prPool, CatchTypeIndex(prReturned[k])) = prPool[k]

\* C24 witness: three objects were appended on a 64-bit build and the third
\* offset is four words.
PoolOffsetFromNewLengthWitness ==
  /\ BytesPerWord = 8
  /\ prPc = "run"
  /\ Len(prPool) = 3
  /\ prReturned = <<16, 24, 32>>

\* With the body of the pool array two words after its base, every read of
\* the emitted code reaches an object of the pool, and the k-th offset
\* reaches the k-th object.
PoolOffsetReachesObject ==
  /\ \A k \in 1..Len(prReturned) : PoolWordAt(prPool, prReturned[k]) = prPool[k]
  /\ \A i \in 1..Len(prCode) :
       prCode[i].k = "read"
         => \E k \in 1..Len(prPool) :
              /\ prCode[i].offset = prReturned[k]
              /\ PoolWordAt(prPool, prCode[i].offset) = prPool[k]

(***************************************************************************)
(* The branches of a method, lines 1548-1556 and 1611-1716, the jumps of   *)
(* the assembler, lines 804-880, and resolveJumps, lines 2070-2077, on the *)
(* bytes of the code buffer.  A method is a run of `fill` iconst_0         *)
(* instructions followed by a tail; a branch names its target by the       *)
(* index of an instruction, counted from 0, and its operand is the         *)
(* difference of the two ips as the class file holds it.                   *)
(***************************************************************************)
MaxTail == 2

rcx == 1

\* The number of values of the uint16_t keys of javaIPs.
KeyRange == 65536

BranchOps == {"goto_", "goto_w", "ifeq", "if_icmpge"}

\* The bytes an instruction takes in the bytecode.
BranchInstructionLength(op) ==
  CASE op \in {"iconst_0", "return_"} -> 1
    [] op \in {"goto_", "ifeq", "if_icmpge"} -> 3
    [] op = "goto_w" -> 5

\* conditional(javaIP, condition), lines 824-832: two bytes and the slot.
ConditionalJavaIp(condition) == <<15, condition>> \o Append4Bytes(0)

\* cmp(int, Register), lines 882-888, and cmp(Register, Register), 890-893.
CmpImmediate(v, reg) == <<131, 248 + reg, v>>
CmpRegister(a, b) == <<57, 192 + a * 8 + b>>

\* The machine code of an instruction: lines 1549-1555, 1588, 1640-1646,
\* 1667-1673, 2031.
BranchEmitted(op) ==
  CASE op = "iconst_0" -> PushByte(0)
    [] op = "return_" -> MovRegister(rbp, rsp) \o PopRegister(rbp) \o Ret
    [] op \in {"goto_", "goto_w"} -> JmpJavaIp
    [] op = "ifeq" ->
         PopRegister(rax) \o CmpImmediate(0, rax) \o ConditionalJavaIp(132)
    [] op = "if_icmpge" ->
         PopRegister(rax) \o PopRegister(rcx) \o CmpRegister(rax, rcx)
           \o ConditionalJavaIp(141)

NumberOfInstructions(m) == m.fill + Len(m.tail)

InstructionAt(m, i) ==
  IF i <= m.fill THEN [op |-> "iconst_0", target |-> 0] ELSE m.tail[i - m.fill]

RECURSIVE TailBytes(_, _)
TailBytes(tail, k) ==
  IF k = 0 THEN 0
  ELSE TailBytes(tail, k - 1) + BranchInstructionLength(tail[k].op)

RECURSIVE TailEmitted(_, _)
TailEmitted(tail, k) ==
  IF k = 0 THEN <<>>
  ELSE TailEmitted(tail, k - 1) \o BranchEmitted(tail[k].op)

\* The value of `ip` at the head of the loop (line 1138) for instruction i,
\* counted from 1, and the value of code.length() there (line 1140).
IpOfInstruction(m, i) ==
  IF i <= m.fill THEN i - 1 ELSE m.fill + TailBytes(m.tail, i - m.fill - 1)

OffsetOfInstruction(m, i) ==
  Len(Prologue)
  + (IF i <= m.fill
       THEN (i - 1) * Len(PushByte(0))
       ELSE m.fill * Len(PushByte(0))
            + Len(TailEmitted(m.tail, i - m.fill - 1)))

\* The 16-bit operand of a branch as the class file holds it, and
\* codeReadInt16 assigned to an int16_t.
Operand16(d) == d % 65536
ReadInt16(operand) == IF operand >= 32768 THEN operand - 65536 ELSE operand

\* The target the template passes to jmp or to the conditional jump:
\* (ip - 3) + offset, or (ip - 5) + offset for goto_w, with ip past the
\* operand.
RecordedTarget(m, i) ==
  LET p == IpOfInstruction(m, i)
      d == IpOfInstruction(m, InstructionAt(m, i).target + 1) - p
  IN  IF InstructionAt(m, i).op = "goto_w"
        THEN ((p + 5) - 5) + d
        ELSE ((p + 3) - 3) + ReadInt16(Operand16(d))

\* The operand of every branch fits its width.
Encodable(m) ==
  \A i \in (m.fill + 1)..NumberOfInstructions(m) :
    InstructionAt(m, i).op \in (BranchOps \ {"goto_w"})
      => LET d == IpOfInstruction(m, InstructionAt(m, i).target + 1)
                    - IpOfInstruction(m, i)
         IN  d >= -32768 /\ d <= 32767

\* The code buffer after the loop: prologue, the filler, the tail.
CodeAfterLoop(m) ==
  Prologue
    \o [i \in 1..(m.fill * 2) |-> PushByte(0)[2 - (i % 2)]]
    \o TailEmitted(m.tail, Len(m.tail))

\* The jumps buffer after the loop: for each branch the target ip and the
\* offset of the slot (code.length() after the opcode bytes).
RECURSIVE JumpsOfTail(_, _)
JumpsOfTail(m, k) ==
  IF k = 0 THEN <<>>
  ELSE LET i == m.fill + k
       IN  JumpsOfTail(m, k - 1)
             \o (IF m.tail[k].op \in BranchOps
                   THEN <<[ip |-> Low32(RecordedTarget(m, i)),
                           offset |-> OffsetOfInstruction(m, i)
                                        + Len(BranchEmitted(m.tail[k].op)) - 4]>>
                   ELSE <<>>)

\* The displacement counted from the slot itself.
DisplacementFromSlot(machineIp, offset) == machineIp - offset

\* machineIpForJavaIp(ip) - (offset + 4), line 2075
Displacement(machineIp, offset) == machineIp - (offset + 4)

\* Buffer::set4, lines 79-82
Set4(buffer, offset, v) ==
  [i \in 1..Len(buffer) |->
     IF i > offset /\ i <= offset + 4
       THEN Append4Bytes(v)[i - offset] ELSE buffer[i]]

\* resolveJumps, lines 2070-2077; a lookup that fails aborts.
RECURSIVE ResolveJumpSlots(_, _, _, _)
ResolveJumpSlots(buffer, jumps, keys, values) ==
  IF jumps = <<>> THEN [aborted |-> FALSE, code |-> buffer]
  ELSE LET found == MachineIpForJavaIp(keys, values, Head(jumps).ip)
       IN  IF found = NoValue
             THEN [aborted |-> TRUE, code |-> buffer]
             ELSE ResolveJumpSlots(
                    Set4(buffer, Head(jumps).offset,
                         Displacement(found, Head(jumps).offset)),
                    Tail(jumps), keys, values)

\* The tails: instructions whose branches go to one of `targets`.
TailsTo(targets) ==
  LET choices ==
        {[op |-> o, target |-> 0] : o \in {"iconst_0", "return_"}}
          \cup {[op |-> o, target |-> k] : o \in BranchOps, k \in targets}
  IN  UNION {[1..n -> choices] : n \in 1..MaxTail}

\* The tail of a long method: a goto_w, then return_ instructions.
LongTails(targets) ==
  {[k \in 1..MaxTail |->
      IF k = 1 THEN [op |-> "goto_w", target |-> t]
      ELSE [op |-> "return_", target |-> 0]] : t \in targets}

\* Short methods, with every tail and every target.
ShortBranchMethods ==
  UNION {{[fill |-> f, tail |-> t] :
            t \in {s \in TailsTo({0, f, f + 1}) :
                     \A k \in 1..Len(s) : s[k].target < f + Len(s)}} :
         f \in {0, 1}}

\* Long methods: the tail starts so that every instruction still fits the
\* key, or at the first ip that does not.
LongBranchMethods ==
  UNION {{[fill |-> f, tail |-> t] : t \in LongTails({0, f, f + 1})} :
         f \in {KeyRange - (5 + MaxTail), KeyRange}}

BranchMethods == {m \in ShortBranchMethods \cup LongBranchMethods : Encodable(m)}

NoBranchMethod == [fill |-> 0, tail |-> <<>>]

JumpsIdle ==
  /\ jmMethod = NoBranchMethod
  /\ jmCode = <<>>
  /\ jmJumps = <<>>
  /\ jmResolved = <<>>
  /\ jmOutcome = "none"

InitJumps == JumpsIdle

\* Compiler::compile for a method: the loop, then resolveJumps.
CompileBranches(m) ==
  /\ jmOutcome = "none"
  /\ LET n == NumberOfInstructions(m)
         keys == [i \in 1..n |-> Append2(IpOfInstruction(m, i))]
         values == [i \in 1..n |-> Low32(OffsetOfInstruction(m, i))]
         buffer == CodeAfterLoop(m)
         jumps == JumpsOfTail(m, Len(m.tail))
         resolved == ResolveJumpSlots(buffer, jumps, keys, values)
     IN  /\ jmMethod' = m
         /\ jmCode' = buffer
         /\ jmJumps' = jumps
         /\ jmResolved' = resolved.code
         /\ jmOutcome' = IF resolved.aborted THEN "aborted" ELSE "compiled"

NextJumps == \E m \in BranchMethods : CompileBranches(m)

\* The indices of the branch instructions of the method, in order.
BranchesOf(m) ==
  SelectSeq([k \in 1..Len(m.tail) |-> m.fill + k],
            LAMBDA i : InstructionAt(m, i).op \in BranchOps)

\* The bytes from `from` on that lie outside the slots of the jumps j, j + 1,
\* ... are the bytes the loop emitted; the slots are in the order of jumps.
RECURSIVE SameOutsideSlots(_, _)
SameOutsideSlots(j, from) ==
  IF j > Len(jmJumps)
    THEN SubSeq(jmResolved, from, Len(jmCode)) = SubSeq(jmCode, from, Len(jmCode))
    ELSE /\ SubSeq(jmResolved, from, jmJumps[j].offset)
              = SubSeq(jmCode, from, jmJumps[j].offset)
         /\ SameOutsideSlots(j + 1, jmJumps[j].offset + 5)

\* Every branch has its entry in jumps with the target ip p + d, its slot
\* holds the distance from the end of the slot to the code of the target
\* instruction, and every byte outside the slots is what the loop emitted.
BranchSlotsResolved ==
  LET m == jmMethod
      branches == BranchesOf(m)
  IN  /\ jmOutcome = "compiled"
      /\ Len(jmJumps) = Len(branches)
      /\ Len(jmResolved) = Len(jmCode)
      /\ \A j \in 1..Len(branches) :
           LET i == branches[j]
               target == InstructionAt(m, i).target + 1
               slot == OffsetOfInstruction(m, i + 1) - 4
           IN  /\ jmJumps[j].ip = IpOfInstruction(m, target)
               /\ jmJumps[j].offset = slot
               /\ SubSeq(jmResolved, slot + 1, slot + 4)
                    = Append4Bytes(OffsetOfInstruction(m, target) - (slot + 4))
      /\ SameOutsideSlots(1, 1)

\* Every instruction of the method starts at an ip the 2-byte key can hold.
BranchIpsFitKey(m) == IpOfInstruction(m, NumberOfInstructions(m)) < KeyRange

MaxNewLength == 2

NewLengths == (0 - MaxNewLength)..MaxNewLength

\* What [rbp + FrameThread] holds, as a number that is no length.
ThreadWord == 4096

NoArgument == 0 - 4096

TemplateOp(k, v) == [k |-> k, v |-> v]

\* compileCall(function, object), lines 1008-1025: the thread is loaded into
\* rax for the store to t->frame, then the call.
CompileCallObject(function) ==
  <<TemplateOp("thread to rax", 0), TemplateOp("call", function)>>

\* compileCall(function, object, Register), lines 1046-1065: arg2 is pushed
\* or moved to rdx first.
CompileCallObjectRegister(function) ==
  <<TemplateOp("pass rax", 0), TemplateOp("thread to rax", 0),
    TemplateOp("call", function)>>

\* compileCall(function, void*, Register), lines 1067-1089: the thread is
\* loaded into rax before arg2 is pushed or moved to rdx.
CompileCallAddressRegister(function) ==
  <<TemplateOp("thread to rax", 0), TemplateOp("pass rax", 0),
    TemplateOp("thread to rax", 0), TemplateOp("call", function)>>

\* case anewarray: pop(rax); cmp(0, rax); jle(nonnegative); compileCall(
\* throwNew, ...); nonnegative.mark(); compileCall(makeBlankObjectArray,
\* class_, rax); push(rax).
AnewarrayTemplate ==
  LET head == <<TemplateOp("pop rax", 0), TemplateOp("cmp", 0)>>
      throw == CompileCallObject("throwNew")
      nonnegative == Len(head) + 1 + Len(throw) + 1
  IN  head \o <<TemplateOp("jle", nonnegative)>> \o throw
        \o CompileCallObjectRegister("makeBlankObjectArray")
        \o <<TemplateOp("push rax", 0)>>

\* case newarray: pop(rax); cmp(0, rax); jge(nonnegative); compileCall(
\* throwNew, ...); nonnegative.mark(); compileCall(makeBlankArray,
\* constructor, rax); push(rax).
NewarrayTemplate ==
  LET head == <<TemplateOp("pop rax", 0), TemplateOp("cmp", 0)>>
      throw == CompileCallObject("throwNew")
      nonnegative == Len(head) + 1 + Len(throw) + 1
  IN  head \o <<TemplateOp("jge", nonnegative)>> \o throw
        \o CompileCallAddressRegister("makeBlankArray")
        \o <<TemplateOp("push rax", 0)>>

TemplateOf(op) == IF op = "anewarray" THEN AnewarrayTemplate ELSE NewarrayTemplate

\* cmp(v, reg), lines 882-888: the flags of reg - v, compared as signed.
CmpFlags(v, reg) == [less |-> reg < v, equal |-> reg = v]

\* The conditions of the conditional jumps, lines 858-880: 0x8d and 0x8e.
JumpTaken(k, flags) ==
  CASE k = "jge" -> ~flags.less
    [] k = "jle" -> flags.less \/ flags.equal

NewArrayIdle ==
  /\ naOp = "newarray"
  /\ naLength = 0
  /\ naAt = 0
  /\ naRax = 0
  /\ naFlags = [less |-> FALSE, equal |-> FALSE]
  /\ naArgument = NoArgument
  /\ naThrown = FALSE
  /\ naAllocated = FALSE
  /\ naPushed = FALSE

InitNewArray ==
  /\ naOp \in {"newarray", "anewarray"}
  /\ naLength \in NewLengths
  /\ naAt = 1
  /\ naRax = 0
  /\ naFlags = [less |-> FALSE, equal |-> FALSE]
  /\ naArgument = NoArgument
  /\ naThrown = FALSE
  /\ naAllocated = FALSE
  /\ naPushed = FALSE

NextOp == TemplateOf(naOp)[naAt]

AtOp(kinds) ==
  /\ naAt >= 1
  /\ naAt <= Len(TemplateOf(naOp))
  /\ NextOp.k \in kinds

\* pop(rax)
RunPop ==
  /\ AtOp({"pop rax"})
  /\ naRax' = naLength
  /\ naAt' = naAt + 1
  /\ UNCHANGED <<naOp, naLength, naFlags, naArgument, naThrown, naAllocated,
                 naPushed>>

\* cmp(0, rax)
RunCmp ==
  /\ AtOp({"cmp"})
  /\ naFlags' = CmpFlags(NextOp.v, naRax)
  /\ naAt' = naAt + 1
  /\ UNCHANGED <<naOp, naLength, naRax, naArgument, naThrown, naAllocated,
                 naPushed>>

\* jge(nonnegative) or jle(nonnegative)
RunJump ==
  /\ AtOp({"jge", "jle"})
  /\ naAt' = IF JumpTaken(NextOp.k, naFlags) THEN NextOp.v ELSE naAt + 1
  /\ UNCHANGED <<naOp, naLength, naRax, naFlags, naArgument, naThrown,
                 naAllocated, naPushed>>

\* mov(rbp, FrameThread, rax)
RunThreadToRax ==
  /\ AtOp({"thread to rax"})
  /\ naRax' = ThreadWord
  /\ naAt' = naAt + 1
  /\ UNCHANGED <<naOp, naLength, naFlags, naArgument, naThrown, naAllocated,
                 naPushed>>

\* push(arg2) or mov(arg2, rdx) with arg2 = rax
RunPassRax ==
  /\ AtOp({"pass rax"})
  /\ naArgument' = naRax
  /\ naAt' = naAt + 1
  /\ UNCHANGED <<naOp, naLength, naRax, naFlags, naThrown, naAllocated,
                 naPushed>>

\* callAddress(function): throwNew unwinds and does not return; the
\* allocation helper returns the array in rax.
RunCall ==
  /\ AtOp({"call"})
  /\ IF NextOp.v = "throwNew"
       THEN /\ naThrown' = TRUE
            /\ naAt' = 0
            /\ UNCHANGED <<naRax, naAllocated>>
       ELSE /\ naAllocated' = TRUE
            /\ naAt' = naAt + 1
            /\ naRax' = 0
            /\ UNCHANGED naThrown
  /\ UNCHANGED <<naOp, naLength, naFlags, naArgument, naPushed>>

\* push(rax)
RunPush ==
  /\ AtOp({"push rax"})
  /\ naPushed' = TRUE
  /\ naAt' = 0
  /\ UNCHANGED <<naOp, naLength, naRax, naFlags, naArgument, naThrown,
                 naAllocated>>

NextNewArray ==
  \/ RunPop
  \/ RunCmp
  \/ RunJump
  \/ RunThreadToRax
  \/ RunPassRax
  \/ RunCall
  \/ RunPush

\* The emitted code has run to its end, or has thrown.
NewArrayOver == naAt = 0 /\ (naThrown \/ naPushed)

(***************************************************************************)
(* C26: the code of newarray and of anewarray throws exactly when the      *)
(* length popped is negative and calls the allocation helper exactly when  *)
(* it is zero or positive.                                                 *)
(***************************************************************************)
NegativeLengthThrows ==
  NewArrayOver => /\ naThrown <=> naLength < 0
                  /\ naAllocated <=> naLength >= 0

\* The code of newarray does so.
NewarrayChecksLength ==
  (NewArrayOver /\ naOp = "newarray")
    => /\ naThrown <=> naLength < 0
       /\ naAllocated <=> naLength >= 0

\* The code of anewarray throws exactly when the length is positive, and
\* calls the helper with the length when it is zero or negative.
AnewarrayChecksInverted ==
  (NewArrayOver /\ naOp = "anewarray")
    => /\ naThrown <=> naLength > 0
       /\ naAllocated <=> naLength <= 0
       /\ naAllocated => naArgument = naLength

\* The helper of newarray is passed the thread pointer as the length.
NewarrayPassesThread ==
  (NewArrayOver /\ naOp = "newarray" /\ naAllocated)
    => naArgument = ThreadWord

(***************************************************************************)
(* athrow, lines 1398-1401, and throw_, lines 285-294.  A reference is a   *)
(* record of its class and an identity; the null reference has class       *)
(* "null".  t->exception is assigned by throw_ and is not cleared by       *)
(* unwind or by the handler the code continues in.                         *)
(***************************************************************************)
MaxThrows == 4
NumThrowables == 3

NullReference == [class |-> "null", id |-> 0]

Throwables == {[class |-> "Throwable", id |-> i] : i \in 1..NumThrowables}

\* makeNullPointerException(t) is not in this file: a new object of the
\* class, told from others by the call that made it.
MakeNullPointerException(call) == [class |-> "NullPointerException", id |-> call]

\* The exception throw_ would leave with the test the other way round.
ExceptionForNonNull(o, call) ==
  IF o # NullReference THEN o ELSE MakeNullPointerException(call)

\* throw_, lines 288-292: if (o) the exception is a new
\* NullPointerException, else it is o.
ExceptionFor(o, call) ==
  IF o # NullReference THEN MakeNullPointerException(call) ELSE o

ThrowIdle ==
  /\ thArgument = NullReference
  /\ thException = NullReference
  /\ thPc = "code"
  /\ thCalls = 0

InitThrow ==
  /\ thArgument = NullReference
  /\ thException = NullReference
  /\ thPc = "code"
  /\ thCalls = 0

\* athrow: pop(rax); compileCall(throw_, rax)
Athrow(o) ==
  /\ thPc = "code"
  /\ thCalls < MaxThrows
  /\ thCalls' = thCalls + 1
  /\ thArgument' = o
  /\ thPc' = "throw_"
  /\ UNCHANGED thException

\* throw_ up to its call of unwind
ThrowAssign ==
  /\ thPc = "throw_"
  /\ thException' = ExceptionFor(thArgument, thCalls)
  /\ thPc' = "unwind"
  /\ UNCHANGED <<thArgument, thCalls>>

\* unwind finds a handler and jumps to it: compiled code runs again.
ThrowUnwind ==
  /\ thPc = "unwind"
  /\ thPc' = "code"
  /\ UNCHANGED <<thArgument, thException, thCalls>>

NextThrow ==
  \/ \E o \in Throwables \cup {NullReference} : Athrow(o)
  \/ ThrowAssign
  \/ ThrowUnwind

(***************************************************************************)
(* C27: throw_ enters unwind with t->exception equal to its argument when  *)
(* that is not null and to a new NullPointerException when it is null;     *)
(* unwind is never entered with a null pending exception.                  *)
(***************************************************************************)
ThrowDelivers ==
  thPc = "unwind"
    => /\ thArgument # NullReference => thException = thArgument
       /\ thArgument = NullReference
            => thException = MakeNullPointerException(thCalls)
       /\ thException # NullReference

\* What throw_ does: the object thrown is replaced by a new
\* NullPointerException, and a null argument is left as the pending exception.
ThrowSwapsCases ==
  thPc = "unwind"
    => /\ thArgument # NullReference
            => thException = MakeNullPointerException(thCalls)
       /\ thArgument = NullReference => thException = NullReference

(***************************************************************************)
(* The two words of a long or double: putfield and getfield (lines         *)
(* 1936-1986 and 1439-1482), lastore and laload (lines 1230-1295 and       *)
(* 1158-1225), putstatic and getstatic (lines 1988-2028 and 1484-1545),    *)
(* and pushReturnValue (lines 965-989).  A program is the store template,  *)
(* the operands of the load pushed again, and the load template; the       *)
(* bounds checks of the array templates are passed.  Memory word 0 is at   *)
(* the offset of the field or element, word 1 four bytes after it.         *)
(***************************************************************************)
NumWords == 3

rdx == 2
rbx == 3
rsi == 6

WordValues == 1..NumWords

\* A reference, and an index, on the operand stack.
ReferenceWord == 0 - 1
IndexWord == 0

WideOp(k, r, m) == [k |-> k, r |-> r, m |-> m]

\* pop(Register), push(Register)
Pop(r) == <<WideOp("pop", r, 0)>>
Push(r) == <<WideOp("push", r, 0)>>

\* mov4(src, dst, dstOffset), lines 620-622
Mov4ToMemory(r, m) == <<WideOp("store4", r, m)>>

\* push4(reg, offset), lines 677-684
Push4(m) ==
  IF BytesPerWord = 8
    THEN <<WideOp("load4", rsi, m)>> \o Push(rsi)
    ELSE <<WideOp("push memory", 0, m)>>

\* pop4(reg, offset), lines 703-710
Pop4(m) ==
  IF BytesPerWord = 8
    THEN Pop(rsi) \o Mov4ToMemory(rsi, m)
    ELSE <<WideOp("pop memory", 0, m)>>

\* The code before a load that puts its operands on the stack.
PushOperand(v) == <<WideOp("push operand", v, 0)>>

\* case putfield, LongField: lines 1969-1976
PutfieldLong ==
  Pop(rcx) \o Pop(rdx) \o Pop(rax) \o Mov4ToMemory(rcx, 0) \o Mov4ToMemory(rdx, 1)

\* case getfield, LongField: lines 1445 and 1469-1473
GetfieldLong == Pop(rax) \o Push4(0) \o Push4(1)

\* case lastore: lines 1242-1247 and 1280-1285
Lastore ==
  Pop(rdx) \o Pop(rbx) \o Pop(rcx) \o Pop(rax)
    \o Mov4ToMemory(rbx, 0) \o Mov4ToMemory(rdx, 1)

\* case laload: lines 1170-1171 and 1205-1209
Laload == Pop(rcx) \o Pop(rax) \o Push4(0) \o Push4(1)

\* case putstatic, LongField: lines 2015-2021, after makeNew returned the
\* object the words go to
PutstaticLong == Pop4(0) \o Pop4(1)

\* case getstatic, LongField: lines 1520-1528, the value not null
GetstaticLong == Push4(0) \o Push4(1)

\* pushReturnValue, LongField: lines 977-981
PushReturnValueLong == Push(rax) \o Push(rdx)

WideKinds == {"field", "array", "static", "return"}

WideProgram(kind) ==
  CASE kind = "field" ->
         PutfieldLong \o PushOperand(ReferenceWord) \o GetfieldLong
    [] kind = "array" ->
         Lastore \o PushOperand(ReferenceWord) \o PushOperand(IndexWord)
           \o Laload
    [] kind = "static" -> PutstaticLong \o GetstaticLong
    [] kind = "return" -> PushReturnValueLong

\* The operand stack before the program; the called method leaves a long
\* in rax and rdx.
WideStack(kind, first, second) ==
  CASE kind = "field" -> <<ReferenceWord, first, second>>
    [] kind = "array" -> <<ReferenceWord, IndexWord, first, second>>
    [] kind = "static" -> <<first, second>>
    [] kind = "return" -> <<>>

WideIdle ==
  /\ wdKind = "return"
  /\ wdFirst = 1
  /\ wdSecond = 1
  /\ wdStack = <<>>
  /\ wdRegisters = [r \in 0..7 |-> 0]
  /\ wdMemory = <<0, 0>>
  /\ wdAt = 0

InitWide ==
  /\ wdKind \in WideKinds
  /\ wdFirst \in WordValues
  /\ wdSecond \in WordValues
  /\ wdStack = WideStack(wdKind, wdFirst, wdSecond)
  /\ wdRegisters = [r \in 0..7 |->
                      IF wdKind = "return" /\ r = rax THEN wdFirst
                      ELSE IF wdKind = "return" /\ r = rdx THEN wdSecond
                      ELSE 0]
  /\ wdMemory = <<0, 0>>
  /\ wdAt = 1

WideNext == WideProgram(wdKind)[wdAt]

WideAt(k) ==
  /\ wdAt >= 1
  /\ wdAt <= Len(WideProgram(wdKind))
  /\ WideNext.k = k

WideAdvance ==
  wdAt' = IF wdAt = Len(WideProgram(wdKind)) THEN 0 ELSE wdAt + 1

Top(s) == s[Len(s)]
Popped(s) == SubSeq(s, 1, Len(s) - 1)

WidePop ==
  /\ WideAt("pop")
  /\ wdRegisters' = [wdRegisters EXCEPT ![WideNext.r] = Top(wdStack)]
  /\ wdStack' = Popped(wdStack)
  /\ WideAdvance
  /\ UNCHANGED <<wdKind, wdFirst, wdSecond, wdMemory>>

WidePush ==
  /\ WideAt("push")
  /\ wdStack' = Append(wdStack, wdRegisters[WideNext.r])
  /\ WideAdvance
  /\ UNCHANGED <<wdKind, wdFirst, wdSecond, wdRegisters, wdMemory>>

WideStore4 ==
  /\ WideAt("store4")
  /\ wdMemory' = [wdMemory EXCEPT ![WideNext.m + 1] = wdRegisters[WideNext.r]]
  /\ WideAdvance
  /\ UNCHANGED <<wdKind, wdFirst, wdSecond, wdStack, wdRegisters>>

WideLoad4 ==
  /\ WideAt("load4")
  /\ wdRegisters' = [wdRegisters EXCEPT ![WideNext.r] = wdMemory[WideNext.m + 1]]
  /\ WideAdvance
  /\ UNCHANGED <<wdKind, wdFirst, wdSecond, wdStack, wdMemory>>

WidePushMemory ==
  /\ WideAt("push memory")
  /\ wdStack' = Append(wdStack, wdMemory[WideNext.m + 1])
  /\ WideAdvance
  /\ UNCHANGED <<wdKind, wdFirst, wdSecond, wdRegisters, wdMemory>>

WidePopMemory ==
  /\ WideAt("pop memory")
  /\ wdMemory' = [wdMemory EXCEPT ![WideNext.m + 1] = Top(wdStack)]
  /\ wdStack' = Popped(wdStack)
  /\ WideAdvance
  /\ UNCHANGED <<wdKind, wdFirst, wdSecond, wdRegisters>>

WidePushOperand ==
  /\ WideAt("push operand")
  /\ wdStack' = Append(wdStack, WideNext.r)
  /\ WideAdvance
  /\ UNCHANGED <<wdKind, wdFirst, wdSecond, wdRegisters, wdMemory>>

NextWide ==
  \/ WidePop
  \/ WidePush
  \/ WideStore4
  \/ WideLoad4
  \/ WidePushMemory
  \/ WidePopMemory
  \/ WidePushOperand

(***************************************************************************)
(* C29: a long or double stored and loaded again, by putfield and          *)
(* getfield, by lastore and laload or by putstatic and getstatic, is on    *)
(* the operand stack with its two words in the order they had before the   *)
(* store, and a long returned in rax and rdx is pushed rax first.          *)
(***************************************************************************)
WideWordsKeepOrder ==
  wdAt = 0 => wdStack = <<wdFirst, wdSecond>>

\* lastore and laload keep the order, and every load pushes memory word 0
\* first, as pushReturnValue pushes rax first.
WideOrderOfArrayAndLoads ==
  wdAt = 0 =>
    /\ wdKind \in {"array", "return"} => wdStack = <<wdFirst, wdSecond>>
    /\ wdKind # "return" => wdStack = wdMemory

\* putfield and putstatic store the top word at offset 0: the words come
\* back exchanged.
WideOrderOfFieldStores ==
  (wdAt = 0 /\ wdKind \in {"field", "static"})
    => /\ wdMemory = <<wdSecond, wdFirst>>
       /\ wdStack = <<wdSecond, wdFirst>>

(***************************************************************************)
(* The line-number table: Compiler::compile, lines 1131-1154.  The methods *)
(* are made of iconst_0, bipush and sipush of a value that is not a byte,  *)
(* whose templates are one push(int32_t) each (lines 667-675, 1403-1405,   *)
(* 1587-1589, 2036-2038).  lineNumberIndex starts at 0 whether or not the  *)
(* method has a table (lines 1133-1137), so the test `lineNumberIndex >=   *)
(* 0` always passes.  A read where the table has no entry, or of a table   *)
(* that is null, has no defined value: it gives any entry, and the length  *)
(* of a null table any length.                                             *)
(***************************************************************************)
MaxLnInstructions == 3
MaxLines == 2
MaxLine == 2

\* A method without a table: lnt is null.
NoTable == <<[ip |-> 0 - 1, line |-> 0]>>

LineOps == {"iconst_0", "bipush", "sipush"}

\* The bytes of the instruction in the method.
JavaLength(k) ==
  CASE k = "iconst_0" -> 1
    [] k = "bipush" -> 2
    [] k = "sipush" -> 3

\* push(int32_t): 0x6a and a byte, or 0x68 and four bytes.
MachineLength(k) == IF k = "sipush" THEN 5 ELSE 2

MaxLnIp == 3 * MaxLnInstructions

LineEntry(ip, line) == [ip |-> ip, line |-> line]
LineEntries == {LineEntry(ip, line) : ip \in 0..MaxLnIp, line \in 1..MaxLine}

LineMethods == UNION {[1..n -> LineOps] : n \in 1..MaxLnInstructions}

\* Tables as a class file holds them: the ips increase.
LineTables ==
  {tb \in UNION {[1..n -> LineEntries] : n \in 0..MaxLines} :
     \A i \in 1..Len(tb) - 1 : tb[i].ip < tb[i + 1].ip}

RECURSIVE JavaIpOf(_, _)
JavaIpOf(method, n) ==
  IF n = 1 THEN 0 ELSE JavaIpOf(method, n - 1) + JavaLength(method[n - 1])

RECURSIVE MachineIpOf(_, _)
MachineIpOf(method, n) ==
  IF n = 1 THEN 0
  ELSE MachineIpOf(method, n - 1) + MachineLength(method[n - 1])

InstructionStarts(method) == {JavaIpOf(method, n) : n \in 1..Len(method)}

MachineOffsetOfIp(method, ip) ==
  MachineIpOf(method, CHOOSE n \in 1..Len(method) : JavaIpOf(method, n) = ip)

LineNumberTableLength(table) == IF table = NoTable THEN 0 ELSE Len(table)

\* lineNumberTableBody(t, lnt, lineNumberIndex), read through: the entry,
\* or any entry where the table has none.
LineNumberTableBody(table, index) ==
  IF index < LineNumberTableLength(table)
    THEN {table[index + 1]}
    ELSE LineEntries

\* lineNumberTableLength(t, lnt) as the loop reads it.
LineNumberTableLengthRead(table) ==
  IF table = NoTable THEN 0..MaxLines ELSE {Len(table)}

LineNumbersIdle ==
  /\ lnMethod = <<"iconst_0">>
  /\ lnTable = NoTable
  /\ lnAt = 0
  /\ lnIp = 0
  /\ lnCodeLength = 0
  /\ lnIndex = 0
  /\ lnEmitted = <<>>
  /\ lnOutside = {}

InitLineNumbers ==
  /\ lnMethod \in LineMethods
  /\ lnTable \in LineTables \cup {NoTable}
  /\ lnAt = 1
  /\ lnIp = 0
  /\ lnCodeLength = 0
  /\ lnIndex = 0
  /\ lnEmitted = <<>>
  /\ lnOutside = {}

\* One turn of the loop, lines 1139-1156 and the case of the instruction.
CompileLineNumber(ln, length) ==
  /\ lnAt >= 1
  /\ lnAt <= Len(lnMethod)
  /\ ln \in LineNumberTableBody(lnTable, lnIndex)
  /\ length \in LineNumberTableLengthRead(lnTable)
  /\ lnOutside' =
       IF lnIndex < LineNumberTableLength(lnTable)
         THEN lnOutside
         ELSE lnOutside \cup {lnIndex}
  /\ IF ln.ip = lnIp
       THEN /\ lnEmitted' =
                 Append(lnEmitted, [offset |-> lnCodeLength, line |-> ln.line])
            /\ lnIndex' = IF lnIndex < length THEN lnIndex + 1 ELSE lnIndex
       ELSE UNCHANGED <<lnEmitted, lnIndex>>
  /\ lnIp' = lnIp + JavaLength(lnMethod[lnAt])
  /\ lnCodeLength' = lnCodeLength + MachineLength(lnMethod[lnAt])
  /\ lnAt' = IF lnAt = Len(lnMethod) THEN 0 ELSE lnAt + 1
  /\ UNCHANGED <<lnMethod, lnTable>>

NextLineNumbers ==
  \E ln \in LineEntries, length \in 0..MaxLines : CompileLineNumber(ln, length)

\* The entries of the table whose ip is the start of an instruction, in
\* the order of the table, with the machine offset of the instruction.
RECURSIVE LineNumbersOfStarts(_, _)
LineNumbersOfStarts(method, table) ==
  IF table = NoTable \/ table = <<>> THEN <<>>
  ELSE LET rest == LineNumbersOfStarts(method, SubSeq(table, 2, Len(table)))
       IN IF table[1].ip \in InstructionStarts(method)
            THEN <<[offset |-> MachineOffsetOfIp(method, table[1].ip),
                    line |-> table[1].line]>> \o rest
            ELSE rest

AllAtStarts(method, table) ==
  /\ table # NoTable
  /\ \A i \in 1..Len(table) : table[i].ip \in InstructionStarts(method)

(***************************************************************************)
(* C30: the line-number table is read only where it has an entry, never    *)
(* when the method has no table or an empty one and never at the index     *)
(* equal to its length, and after the loop the emitted table holds one     *)
(* {machine offset, line} entry for each entry of the table whose ip is    *)
(* the start of an instruction, in the order of the table.                 *)
(***************************************************************************)
LineNumbersReadInside ==
  /\ lnOutside = {}
  /\ lnAt = 0 => lnEmitted = LineNumbersOfStarts(lnMethod, lnTable)

\* Every read outside is at the index equal to the length: at 0 of a null
\* or empty table, and after the last entry was consumed.
LineNumbersReadAtLength ==
  /\ lnIndex <= IF lnTable = NoTable THEN MaxLines ELSE Len(lnTable)
  /\ lnTable # NoTable => lnOutside \subseteq {Len(lnTable)}
  /\ (lnAt # 1 /\ LineNumberTableLength(lnTable) = 0) => 0 \in lnOutside

\* A method whose table has every ip at the start of an instruction, and
\* whose loop read no index outside it, has the entries of the table.
LineNumbersOfReadsInside ==
  (lnAt = 0 /\ lnOutside = {} /\ AllAtStarts(lnMethod, lnTable))
    => lnEmitted = LineNumbersOfStarts(lnMethod, lnTable)

\* An entry that is not at the start of an instruction is never passed:
\* the entries after it are not emitted.
LineNumbersStopAtOtherIp ==
  (lnAt = 0 /\ lnTable # NoTable /\ lnIndex < Len(lnTable))
    => /\ lnOutside = {}
       /\ Len(lnEmitted) = lnIndex
       /\ lnTable[lnIndex + 1].ip \notin InstructionStarts(lnMethod)
            \/ lnTable[lnIndex + 1].ip < JavaIpOf(lnMethod, Len(lnMethod))

(***************************************************************************)
(* The specifications.  Each one runs one part of the program; the state   *)
(* of the other parts stays as constructed.                                *)
(***************************************************************************)
InitCompileAll ==
  /\ BytesPerWord = 4
  /\ CompileIdle
  /\ PatchIdle
  /\ InvokeIdle
  /\ MapIdle
  /\ HandlerIdle
  /\ UnwindIdle
  /\ FramesIdle
  /\ StubIdle
  /\ FootprintIdle
  /\ InitIdle
  /\ NativeIdle
  /\ ArgumentsIdle
  /\ DiscardIdle
  /\ ArrayIdle
  /\ BufferIdle
  /\ PoolIdle
  /\ JumpsIdle
  /\ NewArrayIdle
  /\ ThrowIdle
  /\ WideIdle
  /\ LineNumbersIdle

NextCompileAll ==
  /\ NextCompile
  /\ UNCHANGED <<BytesPerWord, patchVars, invokeVars, mapVars, handlerVars, unwindVars, framesVars, stubVars, footprintVars, initVars, nativeVars, argumentVars, discardVars, arrayVars, bufferVars, poolVars, jumpVars, newArrayVars, throwVars, wideVars, lineNumberVars>>

SpecCompile == InitCompileAll /\ [][NextCompileAll]_vars

InitPatchAll ==
  /\ BytesPerWord \in {4, 8}
  /\ InitPatch
  /\ CompileIdle
  /\ InvokeIdle
  /\ MapIdle
  /\ HandlerIdle
  /\ UnwindIdle
  /\ FramesIdle
  /\ StubIdle
  /\ FootprintIdle
  /\ InitIdle
  /\ NativeIdle
  /\ ArgumentsIdle
  /\ DiscardIdle
  /\ ArrayIdle
  /\ BufferIdle
  /\ PoolIdle
  /\ JumpsIdle
  /\ NewArrayIdle
  /\ ThrowIdle
  /\ WideIdle
  /\ LineNumbersIdle

NextPatchAll ==
  /\ NextPatch
  /\ UNCHANGED <<BytesPerWord, compileVars, invokeVars, mapVars, handlerVars, unwindVars, framesVars, stubVars, footprintVars, initVars, nativeVars, argumentVars, discardVars, arrayVars, bufferVars, poolVars, jumpVars, newArrayVars, throwVars, wideVars, lineNumberVars>>

SpecPatch == InitPatchAll /\ [][NextPatchAll]_vars

InitInvokeAll ==
  /\ BytesPerWord = 4
  /\ InvokeIdle
  /\ CompileIdle
  /\ PatchIdle
  /\ MapIdle
  /\ HandlerIdle
  /\ UnwindIdle
  /\ FramesIdle
  /\ StubIdle
  /\ FootprintIdle
  /\ InitIdle
  /\ NativeIdle
  /\ ArgumentsIdle
  /\ DiscardIdle
  /\ ArrayIdle
  /\ BufferIdle
  /\ PoolIdle
  /\ JumpsIdle
  /\ NewArrayIdle
  /\ ThrowIdle
  /\ WideIdle
  /\ LineNumbersIdle

NextInvokeAll ==
  /\ NextInvoke
  /\ UNCHANGED <<BytesPerWord, compileVars, patchVars, mapVars, handlerVars, unwindVars, framesVars, stubVars, footprintVars, initVars, nativeVars, argumentVars, discardVars, arrayVars, bufferVars, poolVars, jumpVars, newArrayVars, throwVars, wideVars, lineNumberVars>>

SpecInvoke == InitInvokeAll /\ [][NextInvokeAll]_vars

InitMapAll ==
  /\ BytesPerWord = 4
  /\ MapIdle
  /\ CompileIdle
  /\ PatchIdle
  /\ InvokeIdle
  /\ HandlerIdle
  /\ UnwindIdle
  /\ FramesIdle
  /\ StubIdle
  /\ FootprintIdle
  /\ InitIdle
  /\ NativeIdle
  /\ ArgumentsIdle
  /\ DiscardIdle
  /\ ArrayIdle
  /\ BufferIdle
  /\ PoolIdle
  /\ JumpsIdle
  /\ NewArrayIdle
  /\ ThrowIdle
  /\ WideIdle
  /\ LineNumbersIdle

NextMapAll ==
  /\ NextMap
  /\ UNCHANGED <<BytesPerWord, compileVars, patchVars, invokeVars, handlerVars, unwindVars, framesVars, stubVars, footprintVars, initVars, nativeVars, argumentVars, discardVars, arrayVars, bufferVars, poolVars, jumpVars, newArrayVars, throwVars, wideVars, lineNumberVars>>

SpecMap == InitMapAll /\ [][NextMapAll]_vars

InitHandlerAll ==
  /\ BytesPerWord = 4
  /\ InitHandler
  /\ CompileIdle
  /\ PatchIdle
  /\ InvokeIdle
  /\ MapIdle
  /\ UnwindIdle
  /\ FramesIdle
  /\ StubIdle
  /\ FootprintIdle
  /\ InitIdle
  /\ NativeIdle
  /\ ArgumentsIdle
  /\ DiscardIdle
  /\ ArrayIdle
  /\ BufferIdle
  /\ PoolIdle
  /\ JumpsIdle
  /\ NewArrayIdle
  /\ ThrowIdle
  /\ WideIdle
  /\ LineNumbersIdle

NextHandlerAll ==
  /\ NextHandler
  /\ UNCHANGED <<BytesPerWord, compileVars, patchVars, invokeVars, mapVars, unwindVars, framesVars, stubVars, footprintVars, initVars, nativeVars, argumentVars, discardVars, arrayVars, bufferVars, poolVars, jumpVars, newArrayVars, throwVars, wideVars, lineNumberVars>>

SpecHandler == InitHandlerAll /\ [][NextHandlerAll]_vars

InitUnwindAll ==
  /\ BytesPerWord = 4
  /\ InitUnwind
  /\ CompileIdle
  /\ PatchIdle
  /\ InvokeIdle
  /\ MapIdle
  /\ HandlerIdle
  /\ FramesIdle
  /\ StubIdle
  /\ FootprintIdle
  /\ InitIdle
  /\ NativeIdle
  /\ ArgumentsIdle
  /\ DiscardIdle
  /\ ArrayIdle
  /\ BufferIdle
  /\ PoolIdle
  /\ JumpsIdle
  /\ NewArrayIdle
  /\ ThrowIdle
  /\ WideIdle
  /\ LineNumbersIdle

NextUnwindAll ==
  /\ NextUnwind
  /\ UNCHANGED <<BytesPerWord, compileVars, patchVars, invokeVars, mapVars, handlerVars, framesVars, stubVars, footprintVars, initVars, nativeVars, argumentVars, discardVars, arrayVars, bufferVars, poolVars, jumpVars, newArrayVars, throwVars, wideVars, lineNumberVars>>

SpecUnwind == InitUnwindAll /\ [][NextUnwindAll]_vars

InitFramesAll ==
  /\ BytesPerWord = 4
  /\ FramesIdle
  /\ CompileIdle
  /\ PatchIdle
  /\ InvokeIdle
  /\ MapIdle
  /\ HandlerIdle
  /\ UnwindIdle
  /\ StubIdle
  /\ FootprintIdle
  /\ InitIdle
  /\ NativeIdle
  /\ ArgumentsIdle
  /\ DiscardIdle
  /\ ArrayIdle
  /\ BufferIdle
  /\ PoolIdle
  /\ JumpsIdle
  /\ NewArrayIdle
  /\ ThrowIdle
  /\ WideIdle
  /\ LineNumbersIdle

NextFramesAll ==
  /\ NextFrames
  /\ UNCHANGED <<BytesPerWord, compileVars, patchVars, invokeVars, mapVars, handlerVars, unwindVars, stubVars, footprintVars, initVars, nativeVars, argumentVars, discardVars, arrayVars, bufferVars, poolVars, jumpVars, newArrayVars, throwVars, wideVars, lineNumberVars>>

SpecFrames == InitFramesAll /\ [][NextFramesAll]_vars

InitStubAll ==
  /\ BytesPerWord = 4
  /\ StubIdle
  /\ CompileIdle
  /\ PatchIdle
  /\ InvokeIdle
  /\ MapIdle
  /\ HandlerIdle
  /\ UnwindIdle
  /\ FramesIdle
  /\ FootprintIdle
  /\ InitIdle
  /\ NativeIdle
  /\ ArgumentsIdle
  /\ DiscardIdle
  /\ ArrayIdle
  /\ BufferIdle
  /\ PoolIdle
  /\ JumpsIdle
  /\ NewArrayIdle
  /\ ThrowIdle
  /\ WideIdle
  /\ LineNumbersIdle

NextStubAll ==
  /\ NextStub
  /\ UNCHANGED <<BytesPerWord, compileVars, patchVars, invokeVars, mapVars, handlerVars, unwindVars, framesVars, footprintVars, initVars, nativeVars, argumentVars, discardVars, arrayVars, bufferVars, poolVars, jumpVars, newArrayVars, throwVars, wideVars, lineNumberVars>>

SpecStub == InitStubAll /\ [][NextStubAll]_vars

InitFootprintAll ==
  /\ BytesPerWord \in {4, 8}
  /\ InitFootprint
  /\ CompileIdle
  /\ PatchIdle
  /\ InvokeIdle
  /\ MapIdle
  /\ HandlerIdle
  /\ UnwindIdle
  /\ FramesIdle
  /\ StubIdle
  /\ InitIdle
  /\ NativeIdle
  /\ ArgumentsIdle
  /\ DiscardIdle
  /\ ArrayIdle
  /\ BufferIdle
  /\ PoolIdle
  /\ JumpsIdle
  /\ NewArrayIdle
  /\ ThrowIdle
  /\ WideIdle
  /\ LineNumbersIdle

NextFootprintAll ==
  /\ NextFootprint
  /\ UNCHANGED <<BytesPerWord, compileVars, patchVars, invokeVars, mapVars, handlerVars, unwindVars, framesVars, stubVars, initVars, nativeVars, argumentVars, discardVars, arrayVars, bufferVars, poolVars, jumpVars, newArrayVars, throwVars, wideVars, lineNumberVars>>

SpecFootprint == InitFootprintAll /\ [][NextFootprintAll]_vars

InitInitAll ==
  /\ BytesPerWord = 4
  /\ InitIdle
  /\ CompileIdle
  /\ PatchIdle
  /\ InvokeIdle
  /\ MapIdle
  /\ HandlerIdle
  /\ UnwindIdle
  /\ FramesIdle
  /\ StubIdle
  /\ FootprintIdle
  /\ NativeIdle
  /\ ArgumentsIdle
  /\ DiscardIdle
  /\ ArrayIdle
  /\ BufferIdle
  /\ PoolIdle
  /\ JumpsIdle
  /\ NewArrayIdle
  /\ ThrowIdle
  /\ WideIdle
  /\ LineNumbersIdle

NextInitAll ==
  /\ NextInit
  /\ UNCHANGED <<BytesPerWord, compileVars, patchVars, invokeVars, mapVars, handlerVars, unwindVars, framesVars, stubVars, footprintVars, nativeVars, argumentVars, discardVars, arrayVars, bufferVars, poolVars, jumpVars, newArrayVars, throwVars, wideVars, lineNumberVars>>

SpecInit == InitInitAll /\ [][NextInitAll]_vars

InitNativeAll ==
  /\ BytesPerWord = 4
  /\ NativeIdle
  /\ CompileIdle
  /\ PatchIdle
  /\ InvokeIdle
  /\ MapIdle
  /\ HandlerIdle
  /\ UnwindIdle
  /\ FramesIdle
  /\ StubIdle
  /\ FootprintIdle
  /\ InitIdle
  /\ ArgumentsIdle
  /\ DiscardIdle
  /\ ArrayIdle
  /\ BufferIdle
  /\ PoolIdle
  /\ JumpsIdle
  /\ NewArrayIdle
  /\ ThrowIdle
  /\ WideIdle
  /\ LineNumbersIdle

NextNativeAll ==
  /\ NextNative
  /\ UNCHANGED <<BytesPerWord, compileVars, patchVars, invokeVars, mapVars, handlerVars, unwindVars, framesVars, stubVars, footprintVars, initVars, argumentVars, discardVars, arrayVars, bufferVars, poolVars, jumpVars, newArrayVars, throwVars, wideVars, lineNumberVars>>

SpecNative == InitNativeAll /\ [][NextNativeAll]_vars

InitArgumentsAll ==
  /\ BytesPerWord \in {4, 8}
  /\ InitArguments
  /\ CompileIdle
  /\ PatchIdle
  /\ InvokeIdle
  /\ MapIdle
  /\ HandlerIdle
  /\ UnwindIdle
  /\ FramesIdle
  /\ StubIdle
  /\ FootprintIdle
  /\ InitIdle
  /\ NativeIdle
  /\ DiscardIdle
  /\ ArrayIdle
  /\ BufferIdle
  /\ PoolIdle
  /\ JumpsIdle
  /\ NewArrayIdle
  /\ ThrowIdle
  /\ WideIdle
  /\ LineNumbersIdle

NextArgumentsAll ==
  /\ NextArguments
  /\ UNCHANGED <<BytesPerWord, compileVars, patchVars, invokeVars, mapVars, handlerVars, unwindVars, framesVars, stubVars, footprintVars, initVars, nativeVars, discardVars, arrayVars, bufferVars, poolVars, jumpVars, newArrayVars, throwVars, wideVars, lineNumberVars>>

SpecArguments == InitArgumentsAll /\ [][NextArgumentsAll]_vars

InitDiscardAll ==
  /\ BytesPerWord = 4
  /\ InitDiscard
  /\ CompileIdle
  /\ PatchIdle
  /\ InvokeIdle
  /\ MapIdle
  /\ HandlerIdle
  /\ UnwindIdle
  /\ FramesIdle
  /\ StubIdle
  /\ FootprintIdle
  /\ InitIdle
  /\ NativeIdle
  /\ ArgumentsIdle
  /\ ArrayIdle
  /\ BufferIdle
  /\ PoolIdle
  /\ JumpsIdle
  /\ NewArrayIdle
  /\ ThrowIdle
  /\ WideIdle
  /\ LineNumbersIdle

NextDiscardAll ==
  /\ NextDiscard
  /\ UNCHANGED <<BytesPerWord, compileVars, patchVars, invokeVars, mapVars, handlerVars, unwindVars, framesVars, stubVars, footprintVars, initVars, nativeVars, argumentVars, arrayVars, bufferVars, poolVars, jumpVars, newArrayVars, throwVars, wideVars, lineNumberVars>>

SpecDiscard == InitDiscardAll /\ [][NextDiscardAll]_vars

InitArrayAll ==
  /\ BytesPerWord = 4
  /\ InitArray
  /\ CompileIdle
  /\ PatchIdle
  /\ InvokeIdle
  /\ MapIdle
  /\ HandlerIdle
  /\ UnwindIdle
  /\ FramesIdle
  /\ StubIdle
  /\ FootprintIdle
  /\ InitIdle
  /\ NativeIdle
  /\ ArgumentsIdle
  /\ DiscardIdle
  /\ BufferIdle
  /\ PoolIdle
  /\ JumpsIdle
  /\ NewArrayIdle
  /\ ThrowIdle
  /\ WideIdle
  /\ LineNumbersIdle

NextArrayAll ==
  /\ NextArray
  /\ UNCHANGED <<BytesPerWord, compileVars, patchVars, invokeVars, mapVars, handlerVars, unwindVars, framesVars, stubVars, footprintVars, initVars, nativeVars, argumentVars, discardVars, bufferVars, poolVars, jumpVars, newArrayVars, throwVars, wideVars, lineNumberVars>>

SpecArray == InitArrayAll /\ [][NextArrayAll]_vars

InitBufferAll ==
  /\ BytesPerWord \in {4, 8}
  /\ InitBuffer
  /\ CompileIdle
  /\ PatchIdle
  /\ InvokeIdle
  /\ MapIdle
  /\ HandlerIdle
  /\ UnwindIdle
  /\ FramesIdle
  /\ StubIdle
  /\ FootprintIdle
  /\ InitIdle
  /\ NativeIdle
  /\ ArgumentsIdle
  /\ DiscardIdle
  /\ ArrayIdle
  /\ PoolIdle
  /\ JumpsIdle
  /\ NewArrayIdle
  /\ ThrowIdle
  /\ WideIdle
  /\ LineNumbersIdle

NextBufferAll ==
  /\ NextBuffer
  /\ UNCHANGED <<BytesPerWord, compileVars, patchVars, invokeVars, mapVars, handlerVars, unwindVars, framesVars, stubVars, footprintVars, initVars, nativeVars, argumentVars, discardVars, arrayVars, poolVars, jumpVars, newArrayVars, throwVars, wideVars, lineNumberVars>>

SpecBuffer == InitBufferAll /\ [][NextBufferAll]_vars

InitPoolAll ==
  /\ BytesPerWord \in {4, 8}
  /\ InitPool
  /\ CompileIdle
  /\ PatchIdle
  /\ InvokeIdle
  /\ MapIdle
  /\ HandlerIdle
  /\ UnwindIdle
  /\ FramesIdle
  /\ StubIdle
  /\ FootprintIdle
  /\ InitIdle
  /\ NativeIdle
  /\ ArgumentsIdle
  /\ DiscardIdle
  /\ ArrayIdle
  /\ BufferIdle
  /\ JumpsIdle
  /\ NewArrayIdle
  /\ ThrowIdle
  /\ WideIdle
  /\ LineNumbersIdle

NextPoolAll ==
  /\ NextPool
  /\ UNCHANGED <<BytesPerWord, compileVars, patchVars, invokeVars, mapVars, handlerVars, unwindVars, framesVars, stubVars, footprintVars, initVars, nativeVars, argumentVars, discardVars, arrayVars, bufferVars, jumpVars, newArrayVars, throwVars, wideVars, lineNumberVars>>

SpecPool == InitPoolAll /\ [][NextPoolAll]_vars

InitJumpsAll ==
  /\ BytesPerWord \in {4, 8}
  /\ InitJumps
  /\ CompileIdle
  /\ PatchIdle
  /\ InvokeIdle
  /\ MapIdle
  /\ HandlerIdle
  /\ UnwindIdle
  /\ FramesIdle
  /\ StubIdle
  /\ FootprintIdle
  /\ InitIdle
  /\ NativeIdle
  /\ ArgumentsIdle
  /\ DiscardIdle
  /\ ArrayIdle
  /\ BufferIdle
  /\ PoolIdle
  /\ NewArrayIdle
  /\ ThrowIdle
  /\ WideIdle
  /\ LineNumbersIdle

NextJumpsAll ==
  /\ NextJumps
  /\ UNCHANGED <<BytesPerWord, compileVars, patchVars, invokeVars, mapVars, handlerVars, unwindVars, framesVars, stubVars, footprintVars, initVars, nativeVars, argumentVars, discardVars, arrayVars, bufferVars, poolVars, newArrayVars, throwVars, wideVars, lineNumberVars>>

SpecJumps == InitJumpsAll /\ [][NextJumpsAll]_vars

InitNewArrayAll ==
  /\ BytesPerWord \in {4, 8}
  /\ InitNewArray
  /\ CompileIdle
  /\ PatchIdle
  /\ InvokeIdle
  /\ MapIdle
  /\ HandlerIdle
  /\ UnwindIdle
  /\ FramesIdle
  /\ StubIdle
  /\ FootprintIdle
  /\ InitIdle
  /\ NativeIdle
  /\ ArgumentsIdle
  /\ DiscardIdle
  /\ ArrayIdle
  /\ BufferIdle
  /\ PoolIdle
  /\ JumpsIdle
  /\ ThrowIdle
  /\ WideIdle
  /\ LineNumbersIdle

NextNewArrayAll ==
  /\ NextNewArray
  /\ UNCHANGED <<BytesPerWord, compileVars, patchVars, invokeVars, mapVars, handlerVars, unwindVars, framesVars, stubVars, footprintVars, initVars, nativeVars, argumentVars, discardVars, arrayVars, bufferVars, poolVars, jumpVars, throwVars, wideVars, lineNumberVars>>

SpecNewArray == InitNewArrayAll /\ [][NextNewArrayAll]_vars

InitThrowAll ==
  /\ BytesPerWord \in {4, 8}
  /\ InitThrow
  /\ CompileIdle
  /\ PatchIdle
  /\ InvokeIdle
  /\ MapIdle
  /\ HandlerIdle
  /\ UnwindIdle
  /\ FramesIdle
  /\ StubIdle
  /\ FootprintIdle
  /\ InitIdle
  /\ NativeIdle
  /\ ArgumentsIdle
  /\ DiscardIdle
  /\ ArrayIdle
  /\ BufferIdle
  /\ PoolIdle
  /\ JumpsIdle
  /\ NewArrayIdle
  /\ WideIdle
  /\ LineNumbersIdle

NextThrowAll ==
  /\ NextThrow
  /\ UNCHANGED <<BytesPerWord, compileVars, patchVars, invokeVars, mapVars, handlerVars, unwindVars, framesVars, stubVars, footprintVars, initVars, nativeVars, argumentVars, discardVars, arrayVars, bufferVars, poolVars, jumpVars, newArrayVars, wideVars, lineNumberVars>>

SpecThrow == InitThrowAll /\ [][NextThrowAll]_vars

InitWideAll ==
  /\ BytesPerWord \in {4, 8}
  /\ InitWide
  /\ CompileIdle
  /\ PatchIdle
  /\ InvokeIdle
  /\ MapIdle
  /\ HandlerIdle
  /\ UnwindIdle
  /\ FramesIdle
  /\ StubIdle
  /\ FootprintIdle
  /\ InitIdle
  /\ NativeIdle
  /\ ArgumentsIdle
  /\ DiscardIdle
  /\ ArrayIdle
  /\ BufferIdle
  /\ PoolIdle
  /\ JumpsIdle
  /\ NewArrayIdle
  /\ ThrowIdle
  /\ LineNumbersIdle

NextWideAll ==
  /\ NextWide
  /\ UNCHANGED <<BytesPerWord, compileVars, patchVars, invokeVars, mapVars, handlerVars, unwindVars, framesVars, stubVars, footprintVars, initVars, nativeVars, argumentVars, discardVars, arrayVars, bufferVars, poolVars, jumpVars, newArrayVars, throwVars, lineNumberVars>>

SpecWide == InitWideAll /\ [][NextWideAll]_vars

InitLineNumbersAll ==
  /\ BytesPerWord \in {4, 8}
  /\ InitLineNumbers
  /\ CompileIdle
  /\ PatchIdle
  /\ InvokeIdle
  /\ MapIdle
  /\ HandlerIdle
  /\ UnwindIdle
  /\ FramesIdle
  /\ StubIdle
  /\ FootprintIdle
  /\ InitIdle
  /\ NativeIdle
  /\ ArgumentsIdle
  /\ DiscardIdle
  /\ ArrayIdle
  /\ BufferIdle
  /\ PoolIdle
  /\ JumpsIdle
  /\ NewArrayIdle
  /\ ThrowIdle
  /\ WideIdle

NextLineNumbersAll ==
  /\ NextLineNumbers
  /\ UNCHANGED <<BytesPerWord, compileVars, patchVars, invokeVars, mapVars, handlerVars, unwindVars, framesVars, stubVars, footprintVars, initVars, nativeVars, argumentVars, discardVars, arrayVars, bufferVars, poolVars, jumpVars, newArrayVars, throwVars, wideVars>>

SpecLineNumbers == InitLineNumbersAll /\ [][NextLineNumbersAll]_vars

=============================================================================
